---- MODULE Spec2Model ----
(***************************************************************************)
(* Model of the plan engine of claude-do (src/shared/plan.py): the plan    *)
(* document on disk, the mutating commands update-status, resume-reset and *)
(* finalize, and the graph helpers they call.  Role indices are 0-based as *)
(* in the source; sequences are 1-based as in TLA+.                        *)
(***************************************************************************)
EXTENDS Integers, Sequences, FiniteSets, TLC

\* ------------------------------------------------------------------ bounds
NumRoles == 3
MaxBatch == 2
MaxSeqBatch == 1
MaxAttempts == 1
MaxCascadeCalls == 2

Roles == 0..(NumRoles - 1)

\* ------------------------------------------------------------- vocabulary
None == "None"

\* The plan file.
PlanPath == "plan.json"

Statuses == {"pending", "in_progress", "completed", "failed", "blocked", "skipped"}

\* A name is the sequence of its characters.
AllNames == << <<"a">>, <<"b">>, <<"c">>, <<"d">>, <<"e">>, <<"f">>,
               <<"g">>, <<"h">>, <<"i">> >>

\* The names a planner gives the roles 0, 1, ... where nothing else is said.
DefaultNames(roles) == [i \in roles |-> AllNames[i + 1]]

FullKeys == {"name", "goal", "model", "scope", "acceptanceCriteria",
             "status", "attempts", "result", "directoryOverlaps"}

Range(s) == {s[k] : k \in 1..Len(s)}

RECURSIVE SortedSeq(_)
SortedSeq(S) ==
    IF S = {} THEN <<>>
    ELSE LET m == CHOOSE x \in S : \A y \in S : x <= y
         IN <<m>> \o SortedSeq(S \ {m})

\* ------------------------------------------------------------------ state
VARIABLES
    names,           \* role index -> role["name"]
    planKeys,        \* the top-level keys present in the plan
    deps,            \* role index -> declared scope.dependencies (role names)
    status,          \* role index -> role["status"]
    attempts,        \* role index -> role["attempts"]
    fields,          \* role index -> keys present in the role object
    scope,           \* role index -> keys present in role["scope"]
    result,          \* role index -> role["result"]
    completedRoles,  \* plan["progress"]["completedRoles"]
    directoryOverlaps, \* role index -> role["directoryOverlaps"]
    echo,            \* whether the last command's input and output are kept
    loaded,          \* the document the last command read
    stdin,           \* the input of the last command
    out,             \* the JSON result of the last command
    dirs,            \* role index -> scope.directories and scope.patterns
    disk,            \* the plan's directory: file names, and the files' bytes
    procs,           \* the invocations running against the plan file
    lastRead,        \* what the last reader of the plan file got
    failures         \* history: role index -> times update-status set it failed

docvars == <<names, planKeys, deps, status, attempts, result, fields, scope,
            completedRoles, directoryOverlaps>>

\* The roles of the plan in hand.
PlanRoles == DOMAIN status

RoleName(i) == names[i]

Names == {RoleName(i) : i \in Roles}

\* What only the specifications of the plan file and of the queries follow.
iovars == <<dirs, disk, procs, lastRead, failures>>

vars == <<names, planKeys, deps, status, attempts, result, fields, scope,
          completedRoles, directoryOverlaps, echo, loaded, stdin, out, dirs, disk, procs, lastRead,
          failures>>

\* The values of iovars where the plan file and the scopes are not followed.
NoIO ==
    /\ dirs = <<>>
    /\ disk = <<>>
    /\ procs = <<>>
    /\ lastRead = <<>>
    /\ failures = <<>>

\* The engine keeps nothing between invocations but the document: where echo
\* is off, a command's input and output are gone once it has exited.
Quiet == [op |-> "none", ok |-> TRUE]

Echo(value, gone) == IF echo THEN value ELSE gone

NoDoc == [status |-> <<>>]

Doc ==
    [status |-> status, attempts |-> attempts, result |-> result,
     fields |-> fields, scope |-> scope, completedRoles |-> completedRoles]

\* ---------------------------------------------------------- shared helpers
\* name -> index; a later role of the same name overwrites an earlier one.
build_name_index(roles) ==
    [nm \in {RoleName(i) : i \in roles} |-> CHOOSE i \in roles :
        /\ RoleName(i) = nm
        /\ \A j \in roles : RoleName(j) = nm => j <= i]

\* declared is the roles' scope.dependencies, one list of names per role.
resolve_dependencies(declared) ==
    LET name_index == build_name_index(DOMAIN declared)
    IN [i \in DOMAIN declared |->
          LET kept == SelectSeq(declared[i], LAMBDA d : d \in DOMAIN name_index)
          IN [k \in 1..Len(kept) |-> name_index[kept[k]]]]

\* reverse_deps[idx]: one entry per occurrence of idx in some dep_indices[i],
\* in increasing order of i.
RECURSIVE reverse_deps_from(_, _, _)
reverse_deps_from(dep_indices, idx, i) ==
    IF i \notin DOMAIN dep_indices THEN <<>>
    ELSE LET occ == SelectSeq(dep_indices[i], LAMBDA d : d = idx)
         IN [k \in 1..Len(occ) |-> i] \o reverse_deps_from(dep_indices, idx, i + 1)

reverse_deps(dep_indices, idx) == reverse_deps_from(dep_indices, idx, 0)

RECURSIVE transitive_bfs(_, _, _)
transitive_bfs(dep_indices, queue, transitive) ==
    IF queue = <<>> THEN transitive
    ELSE LET idx == Head(queue)
         IN IF idx \in transitive
            THEN transitive_bfs(dep_indices, Tail(queue), transitive)
            ELSE LET seen == transitive \cup {idx}
                     more == SelectSeq(reverse_deps(dep_indices, idx),
                                       LAMBDA d : d \notin seen)
                 IN transitive_bfs(dep_indices, Tail(queue) \o more, seen)

\* Mutant: the start roles stay in the result.
get_transitive_deps_keep_start(dep_indices, start_indices) ==
    transitive_bfs(dep_indices, start_indices, {})

get_transitive_deps(dep_indices, start_indices) ==
    transitive_bfs(dep_indices, start_indices, {}) \ Range(start_indices)

RECURSIVE check_cycle_visit(_, _, _, _)
\* visit(idx) as [found, visited, stack]
check_cycle_visit(dep_indices, idx, visited, stack) ==
    IF idx \in stack THEN [found |-> TRUE, visited |-> visited]
    ELSE IF idx \in visited THEN [found |-> FALSE, visited |-> visited]
    ELSE LET RECURSIVE over(_, _)
             over(k, vis) ==
                 IF k > Len(dep_indices[idx]) THEN [found |-> FALSE, visited |-> vis]
                 ELSE LET r == check_cycle_visit(dep_indices, dep_indices[idx][k],
                                                  vis, stack \cup {idx})
                      IN IF r.found THEN r ELSE over(k + 1, r.visited)
         IN over(1, visited \cup {idx})

RECURSIVE check_cycle_from(_, _, _)
check_cycle_from(dep_indices, i, visited) ==
    IF i \notin DOMAIN dep_indices THEN FALSE
    ELSE IF i \in visited THEN check_cycle_from(dep_indices, i + 1, visited)
    ELSE LET r == check_cycle_visit(dep_indices, i, visited, {})
         IN r.found \/ check_cycle_from(dep_indices, i + 1, r.visited)

\* Mutant: the search starts at role 0 only.
check_cycle_first_only(dep_indices) ==
    check_cycle_visit(dep_indices, 0, {}, {}).found

check_cycle(dep_indices) == check_cycle_from(dep_indices, 0, {})

CycleSentinel == 999

\* Mutant: the depth of the last dependency.
max_dep_depth_last(mx, d) == d

\* Mutant: the smallest of the dependencies' depths.
max_dep_depth_min(mx, d) == IF mx = 0 \/ d < mx THEN d ELSE mx

\* One step of max(...) over the dependencies' depths.
max_dep_depth(mx, d) == IF d > mx THEN d ELSE mx

RECURSIVE get_depth(_, _, _, _)
\* get_depth(index, visited) with the shared memo depths; returns the depth
\* and the memo after the call.
get_depth(dep_indices, index, visited, depths) ==
    IF index \in DOMAIN depths THEN [d |-> depths[index], depths |-> depths]
    ELSE IF index \in visited THEN [d |-> CycleSentinel, depths |-> depths]
    ELSE LET blocked_by == dep_indices[index]
             RECURSIVE over(_, _, _)
             over(k, mx, dp) ==
                 IF k > Len(blocked_by) THEN [d |-> mx, depths |-> dp]
                 ELSE LET r == get_depth(dep_indices, blocked_by[k],
                                         visited \cup {index}, dp)
                      IN over(k + 1, max_dep_depth(mx, r.d), r.depths)
             res == over(1, 0, depths)
         IN IF blocked_by = <<>>
            THEN [d |-> 1,
                  depths |-> [x \in DOMAIN depths \cup {index} |->
                                 IF x = index THEN 1 ELSE depths[x]]]
            ELSE [d |-> res.d + 1,
                  depths |-> [x \in DOMAIN res.depths \cup {index} |->
                                 IF x = index THEN res.d + 1 ELSE res.depths[x]]]

RECURSIVE compute_depths_from(_, _, _)
compute_depths_from(dep_indices, i, depths) ==
    IF i \notin DOMAIN dep_indices THEN depths
    ELSE IF i \in DOMAIN depths THEN compute_depths_from(dep_indices, i + 1, depths)
    ELSE compute_depths_from(dep_indices, i + 1,
                             get_depth(dep_indices, i, {}, depths).depths)

compute_depths(dep_indices) ==
    compute_depths_from(dep_indices, 0, [x \in {} |-> 0])

\* ------------------------------------------------------------- status machine
\* Mutant: a pending role may be completed directly.
valid_transitions_skip_ahead(current_status) ==
    CASE current_status = "pending" -> {"in_progress", "completed"}
      [] current_status = "in_progress" -> {"completed", "failed"}
      [] current_status = "failed" -> {"pending"}
      [] OTHER -> {}

\* Mutant: a skipped role may be reset to pending.
valid_transitions_unskip(current_status) ==
    CASE current_status = "pending" -> {"in_progress"}
      [] current_status = "in_progress" -> {"completed", "failed"}
      [] current_status = "failed" -> {"pending"}
      [] current_status = "skipped" -> {"pending"}
      [] OTHER -> {}

valid_transitions_block(current_status) ==
    CASE current_status = "pending" -> {"in_progress"}
      [] current_status = "in_progress" -> {"completed", "failed", "blocked"}
      [] current_status = "failed" -> {"pending"}
      [] OTHER -> {}

valid_transitions(current_status) ==
    CASE current_status = "pending" -> {"in_progress"}
      [] current_status = "in_progress" -> {"completed", "failed"}
      [] current_status = "failed" -> {"pending"}
      [] current_status = "completed" -> {}
      [] current_status = "skipped" -> {}
      [] current_status = "blocked" -> {}
      [] OTHER -> {}

validate_status_transition(current_status, new_status) ==
    new_status \in valid_transitions(current_status)

\* Python's roles[idx]: a negative idx counts from the end of the list.
PyIndex(idx) == IF idx < 0 THEN idx + NumRoles ELSE idx

KeepKeys == {"name", "goal", "status", "result", "model", "scope", "attempts"}

\* Mutant: the scope keeps its directories and patterns.
trim_role_fields_keep_scope(mem, r) ==
    [mem EXCEPT !.fields[r] = @ \cap KeepKeys]

\* The role object r of mem after _trim_role_fields.
trim_role_fields(mem, r) ==
    [mem EXCEPT
        !.scope[r] = IF "scope" \in mem.fields[r] THEN {"dependencies"} ELSE @,
        !.fields[r] = @ \cap KeepKeys]

\* update.get("status"); an absent key reads as None.
StatusOf(update) == IF "status" \in DOMAIN update THEN update.status ELSE None

\* Mutant: every status change trims.
enters_completed_any(new_status) == new_status # None

\* The test that guards trimming and the completed list.
enters_completed(new_status) == new_status = "completed"

\* mem is the plan in memory plus the lists the command reports.
apply_status_update(mem, update, idx) ==
    LET r == PyIndex(idx)
        new_status == StatusOf(update)
        m1 == IF new_status # None
              THEN [mem EXCEPT
                      !.status[r] = new_status,
                      !.updated = Append(@, idx),
                      !.newly_failed = IF new_status \in {"failed", "blocked"}
                                       THEN Append(@, idx) ELSE @]
              ELSE mem
        m2 == IF "result" \in DOMAIN update
              THEN [m1 EXCEPT !.result[r] = update.result,
                              !.fields[r] = @ \cup {"result"}]
              ELSE m1
    IN IF enters_completed(new_status)
       THEN LET m3 == trim_role_fields(m2, r)
                name == IF "name" \in m3.fields[r] THEN RoleName(r) ELSE <<>>
            IN [m3 EXCEPT
                  !.trimmed = Append(@, idx),
                  !.planKeys = @ \cup {"progress"},
                  !.completedRoles =
                      IF name # <<>> /\ name \notin Range(@) THEN Append(@, name) ELSE @]
       ELSE m2

\* Mutant: a role in progress is skipped too.
cascade_hits_active(st, idx) == st[idx] \in {"pending", "in_progress"}

\* Mutant: a role already skipped is skipped, and reported, again.
cascade_hits_again(st, idx) == st[idx] \in {"pending", "skipped"}

\* The roles of the closure that the cascade skips.
cascade_hits(st, idx) == st[idx] = "pending"

\* Mutant: the cause is always the first declared dependency.
cascade_cause_first(st, deps_of, failed_set) ==
    IF deps_of # <<>> THEN deps_of[1] ELSE -1

\* The causal pointer: st is the statuses with the role itself already skipped.
cascade_cause(st, deps_of, failed_set) ==
    LET hit == SelectSeq(deps_of, LAMBDA dep :
                   \/ dep \in failed_set
                   \/ st[dep] \in {"failed", "blocked", "skipped"})
    IN IF hit # <<>> THEN Head(hit)
       ELSE IF deps_of # <<>> THEN deps_of[1] ELSE -1

RECURSIVE cascade_loop(_, _, _, _, _)
cascade_loop(order, st, dep_indices, failed_set, cascaded) ==
    IF order = <<>> THEN [status |-> st, cascaded |-> cascaded]
    ELSE LET idx == Head(order)
         IN IF cascade_hits(st, idx)
            THEN LET st2 == [st EXCEPT ![idx] = "skipped"]
                     cause == cascade_cause(st2, dep_indices[idx], failed_set)
                 IN cascade_loop(Tail(order), st2, dep_indices, failed_set,
                                 Append(cascaded, [roleIndex |-> idx,
                                                   status |-> "skipped",
                                                   cause |-> cause]))
            ELSE cascade_loop(Tail(order), st, dep_indices, failed_set, cascaded)

\* Returns the statuses after the cascade and the cascaded list.
compute_cascading_failures(st, dep_indices, newly_failed) ==
    IF newly_failed = <<>> THEN [status |-> st, cascaded |-> <<>>]
    ELSE cascade_loop(SortedSeq(get_transitive_deps(dep_indices, newly_failed)),
                      st, dep_indices, Range(newly_failed), <<>>)

\* Mutant: an invalid transition is skipped and the batch goes on.
RECURSIVE update_loop_skip_invalid(_, _, _)
update_loop_skip_invalid(updates, k, mem) ==
    IF k > Len(updates) THEN mem
    ELSE LET update == updates[k]
         IN IF "roleIndex" \notin DOMAIN update
            THEN update_loop_skip_invalid(updates, k + 1, mem)
            ELSE IF update.roleIndex >= NumRoles
            THEN update_loop_skip_invalid(updates, k + 1, mem)
            ELSE LET idx == update.roleIndex
                     new_status == StatusOf(update)
                     current_status == mem.status[PyIndex(idx)]
                 IN IF new_status # None
                       /\ ~validate_status_transition(current_status, new_status)
                    THEN update_loop_skip_invalid(updates, k + 1, mem)
                    ELSE update_loop_skip_invalid(updates, k + 1,
                                     apply_status_update(mem, update, idx))

\* The for loop of cmd_update_status; mem.error is set where the code calls
\* error_exit, which ends the process before anything is written.
RECURSIVE update_loop(_, _, _)
update_loop(updates, k, mem) ==
    IF k > Len(updates) \/ mem.error THEN mem
    ELSE LET update == updates[k]
         IN IF "roleIndex" \notin DOMAIN update
            THEN update_loop(updates, k + 1, mem)
            ELSE IF update.roleIndex >= NumRoles
            THEN update_loop(updates, k + 1, mem)
            ELSE LET idx == update.roleIndex
                     new_status == StatusOf(update)
                     current_status == mem.status[PyIndex(idx)]
                 IN IF new_status # None
                       /\ ~validate_status_transition(current_status, new_status)
                    THEN [mem EXCEPT !.error = TRUE]
                    ELSE update_loop(updates, k + 1,
                                     apply_status_update(mem, update, idx))

LoadedPlan ==
    [planKeys |-> planKeys, status |-> status, result |-> result, fields |-> fields, scope |-> scope,
     completedRoles |-> completedRoles, updated |-> <<>>, trimmed |-> <<>>,
     newly_failed |-> <<>>, error |-> FALSE]

cmd_update_status(updates) ==
    LET dep_indices == resolve_dependencies(deps)
        mem == update_loop(updates, 1, LoadedPlan)
        casc == compute_cascading_failures(mem.status, dep_indices, mem.newly_failed)
    IN /\ stdin' = Echo(updates, <<>>)
       /\ loaded' = Echo(Doc, NoDoc)
       /\ UNCHANGED <<echo, dirs, disk, procs, lastRead>>
       /\ failures' = IF failures = <<>> \/ mem.error THEN failures
                       ELSE [i \in DOMAIN failures |->
                               failures[i] + Cardinality(
                                   {k \in 1..Len(mem.newly_failed) :
                                       PyIndex(mem.newly_failed[k]) = i})]
       /\ IF mem.error
          THEN /\ out' = Echo([op |-> "update-status", ok |-> FALSE], Quiet)
               /\ UNCHANGED docvars
          ELSE /\ status' = casc.status
               /\ result' = mem.result
               /\ fields' = mem.fields
               /\ scope' = mem.scope
               /\ completedRoles' = mem.completedRoles
               /\ planKeys' = mem.planKeys
               /\ UNCHANGED <<names, deps, attempts, directoryOverlaps>>
               /\ out' = Echo([op |-> "update-status", ok |-> TRUE,
                               updated |-> mem.updated,
                               cascaded |-> casc.cascaded,
                               trimmed |-> mem.trimmed], Quiet)

\* Mutant: a failed role is reset too.
was_interrupted_or_failed(st) == st \in {"in_progress", "failed"}

\* role.get("status") == "in_progress"
was_interrupted(st) == st = "in_progress"

\* cmd_resume_reset, for roles reset fewer than cap times before.
resume_reset(cap) ==
    LET hit == {i \in Roles : was_interrupted(status[i])}
        st2 == [i \in Roles |-> IF i \in hit THEN "pending" ELSE status[i]]
    IN /\ \A i \in hit : attempts[i] < cap
       /\ status' = st2
       /\ attempts' = [i \in Roles |-> IF i \in hit THEN attempts[i] + 1 ELSE attempts[i]]
       /\ fields' = [i \in Roles |-> IF i \in hit THEN fields[i] \cup {"attempts"}
                                      ELSE fields[i]]
       /\ UNCHANGED <<names, planKeys, deps, result, scope, completedRoles,
                      directoryOverlaps>>
       /\ stdin' = <<>>
       /\ loaded' = Echo(Doc, NoDoc)
       /\ UNCHANGED <<echo, iovars>>
       /\ out' = Echo([op |-> "resume-reset", ok |-> TRUE,
                       resetRoles |-> SortedSeq(hit),
                       noWorkRemaining |-> \A i \in Roles : st2[i] # "pending"],
                      Quiet)

cmd_resume_reset == resume_reset(MaxAttempts)

\* -------------------------------------------------------------------- scopes
\* The roles of the plan in hand, in index order.
RoleList == SortedSeq(PlanRoles)

\* A path or glob pattern is the sequence of its components between slashes;
\* a component with a star in it is one of GlobParts.
GlobParts == {"**", "*.py"}

IsPrefix(a, b) == Len(a) <= Len(b) /\ \A k \in 1..Len(a) : a[k] = b[k]

\* a.split("*")[0].rstrip("/"): the components before the first one with a star.
RECURSIVE glob_base(_)
glob_base(a) ==
    IF a = <<>> \/ Head(a) \in GlobParts THEN <<>>
    ELSE <<Head(a)>> \o glob_base(Tail(a))

glob_bases_overlap(a, b) ==
    IF "**" \notin Range(a) /\ "**" \notin Range(b) THEN FALSE
    ELSE LET a_base == glob_base(a)
             b_base == glob_base(b)
         IN IF a_base = <<>> \/ b_base = <<>> THEN FALSE
            ELSE IsPrefix(a_base, b_base) \/ IsPrefix(b_base, a_base)

paths_overlap(a, b) ==
    \/ a = b
    \/ IsPrefix(a, b) \/ IsPrefix(b, a)
    \/ glob_bases_overlap(a, b)

dirs_overlap(dirs_a, dirs_b) ==
    \E a \in dirs_a : \E b \in dirs_b : paths_overlap(a, b)

\* Mutant: the direct dependencies only.
transitive_closure_direct(dep_indices, start) == Range(dep_indices[start])

RECURSIVE closure_bfs(_, _, _)
closure_bfs(dep_indices, queue, visited) ==
    IF queue = <<>> THEN visited
    ELSE LET fresh == SelectSeq(dep_indices[Head(queue)], LAMBDA dep : dep \notin visited)
             \* a dependency listed twice is queued once
             RECURSIVE once(_, _)
             once(s, got) ==
                 IF s = <<>> THEN <<>>
                 ELSE IF Head(s) \in got THEN once(Tail(s), got)
                 ELSE <<Head(s)>> \o once(Tail(s), got \cup {Head(s)})
             added == once(fresh, {})
         IN closure_bfs(dep_indices, Tail(queue) \o added, visited \cup Range(added))

\* The backward closure, as a set.
transitive_closure(dep_indices, start) == closure_bfs(dep_indices, <<start>>, {})

\* Mutant: a conflict is recorded against every other role.
later_role_any(i, j) == j # i

\* The inner loop skips j <= i: only a later role is recorded.
later_role(i, j) == j > i

\* role_dirs: each role's directories and patterns, as one set; a scope
\* without either gives the empty set.
collect_role_dirs ==
    [i \in PlanRoles |-> IF i \in DOMAIN dirs THEN dirs[i] ELSE {}]

\* overlaps_by_role: the roles with a conflict, each with its list of later roles.
compute_overlaps(role_dirs, dep_indices) ==
    LET overlaps(i) ==
            SelectSeq(RoleList, LAMBDA j :
                /\ later_role(i, j)
                /\ j \notin transitive_closure(dep_indices, i)
                /\ i \notin transitive_closure(dep_indices, j)
                /\ dirs_overlap(role_dirs[i], role_dirs[j]))
    IN [i \in {i \in DOMAIN role_dirs : overlaps(i) # <<>>} |-> overlaps(i)]

\* ------------------------------------------------------------------ finalize
MaxRolesAllowed == 8

MaxDepthAllowed == 5

\* The paths an invocation may be given: the plan, a file that is not JSON,
\* and a path where no file is.
GarbledPath == "notes.txt"

MissingPath == "gone.json"

PathArgs == {PlanPath, GarbledPath, MissingPath}

\* Mutant: a failed load exits like a normal answer.
error_exit_zero(message) == [ok |-> FALSE, error |-> message, exit |-> 0]

\* error_exit: the error object on stdout, exit status 1.
error_exit(message) == [ok |-> FALSE, error |-> message, exit |-> 1]

\* output_json: the object on stdout, exit status 0.
output_json(data) == data @@ [exit |-> 0]

\* load_plan: the process ends in error_exit where the file is missing or
\* does not parse; else the document (docvars) is in hand.
load_plan(path) ==
    IF path = MissingPath THEN [ok |-> FALSE, error |-> "Plan file not found"]
    ELSE IF path = GarbledPath THEN [ok |-> FALSE, error |-> "Invalid JSON in plan file"]
    ELSE [ok |-> TRUE, error |-> ""]

\* An issue is <<text, role index>>; -1 where it is about the plan.
validate_role_count_and_names ==
    LET n == Cardinality(PlanRoles)
    IN (IF n = 0 THEN {<<"No roles in plan", -1>>}
        ELSE IF n > MaxRolesAllowed THEN {<<"Too many roles", -1>>}
        ELSE {})
       \cup {<<"Duplicate role name", i>> : i \in {i \in PlanRoles :
                 \E j \in PlanRoles : j < i /\ RoleName(j) = RoleName(i)}}

\* scope.get("directories") or scope.get("patterns"): some path is listed.
\* Where the paths themselves are not followed, a key that is there stands
\* for a list that is not empty.
scope_paths_given(i) ==
    IF i \in DOMAIN dirs THEN dirs[i] # {}
    ELSE scope[i] \cap {"directories", "patterns"} # {}

\* The checks of _validate_role_brief that read keys the engine itself removes.
validate_role_brief(i) ==
    (IF "name" \notin fields[i] \/ RoleName(i) = <<>>
     THEN {<<"missing name", i>>} ELSE {})
    \cup (IF "goal" \notin fields[i] THEN {<<"missing goal", i>>} ELSE {})
    \cup (IF "model" \notin fields[i] THEN {<<"missing model", i>>} ELSE {})
    \cup (IF ~scope_paths_given(i)
          THEN {<<"scope needs directories or patterns", i>>} ELSE {})
    \cup (IF "acceptanceCriteria" \notin fields[i]
          THEN {<<"missing acceptanceCriteria", i>>} ELSE {})

\* Mutant: the critical path may be of any depth.
validate_dependency_graph_any_depth ==
    LET name_index == build_name_index(PlanRoles)
        dep_indices == resolve_dependencies(deps)
        has_cycle == check_cycle(dep_indices)
    IN {<<"dependency not found in roles", i>> : i \in {i \in PlanRoles :
            \E k \in 1..Len(deps[i]) : deps[i][k] \notin DOMAIN name_index}}
       \cup (IF has_cycle THEN {<<"Cycle detected in role dependencies", -1>>}
             ELSE {})

validate_dependency_graph ==
    LET name_index == build_name_index(PlanRoles)
        dep_indices == resolve_dependencies(deps)
        has_cycle == check_cycle(dep_indices)
        depths == compute_depths(dep_indices)
    IN {<<"dependency not found in roles", i>> : i \in {i \in PlanRoles :
            \E k \in 1..Len(deps[i]) : deps[i][k] \notin DOMAIN name_index}}
       \cup (IF has_cycle THEN {<<"Cycle detected in role dependencies", -1>>}
             ELSE {})
       \cup (IF PlanRoles # {} /\ ~has_cycle
                /\ \E i \in DOMAIN depths : depths[i] > MaxDepthAllowed
             THEN {<<"Critical path depth too high", -1>>} ELSE {})

validate_structure ==
    validate_role_count_and_names
    \cup UNION {validate_role_brief(i) : i \in PlanRoles}
    \cup validate_dependency_graph

\* overlaps_by_role.get(i, []) for every role.
compute_directory_overlaps ==
    LET overlaps_by_role == compute_overlaps(collect_role_dirs,
                                             resolve_dependencies(deps))
    IN [i \in PlanRoles |-> IF i \in DOMAIN overlaps_by_role
                            THEN overlaps_by_role[i] ELSE <<>>]

\* Mutant: the value is set whether or not the key is there.
init_if_absent_always(present, old, default) == default

\* if key not in obj: obj[key] = default
init_if_absent(present, old, default) == IF present THEN old ELSE default

cmd_finalize(plan_path) ==
    LET plan == load_plan(plan_path)
        issues == validate_structure
    IN /\ stdin' = Echo(<<plan_path>>, <<>>)
       /\ loaded' = Echo(Doc, NoDoc)
       /\ UNCHANGED <<echo, iovars>>
       /\ IF ~plan.ok
          THEN /\ out' = Echo([op |-> "finalize"] @@ error_exit(plan.error), Quiet)
               /\ UNCHANGED docvars
          ELSE IF issues # {}
          THEN /\ out' = Echo([op |-> "finalize"]
                              @@ output_json([ok |-> FALSE,
                                              error |-> "validation_failed",
                                              issues |-> issues]), Quiet)
               /\ UNCHANGED docvars
          ELSE /\ directoryOverlaps' = compute_directory_overlaps
               /\ status' = [i \in PlanRoles |->
                    init_if_absent("status" \in fields[i], status[i], "pending")]
               /\ attempts' = [i \in PlanRoles |->
                    init_if_absent("attempts" \in fields[i], attempts[i], 0)]
               /\ result' = [i \in PlanRoles |->
                    init_if_absent("result" \in fields[i], result[i], "null")]
               /\ fields' = [i \in PlanRoles |->
                               fields[i] \cup {"directoryOverlaps", "status",
                                               "attempts", "result"}]
               /\ completedRoles' =
                    init_if_absent("progress" \in planKeys, completedRoles, <<>>)
               /\ planKeys' = planKeys \cup {"progress"}
               /\ UNCHANGED <<names, deps, scope>>
               /\ out' = Echo([op |-> "finalize"]
                              @@ output_json([ok |-> TRUE, validated |-> TRUE,
                                              computedOverlaps |-> Cardinality(PlanRoles),
                                              roleCount |-> Cardinality(PlanRoles)]),
                              Quiet)

\* ------------------------------------------------------------------- inputs
\* Declared dependency lists: the names of other roles, in any order.
DepLists(i) ==
    LET others == Names \ {RoleName(i)}
    IN {s \in UNION {[1..k -> others] : k \in 0..Cardinality(others)} :
           \A a, b \in 1..Len(s) : a # b => s[a] # s[b]}

\* The dependency declarations finalize accepts: resolved and acyclic.
FinalizedDeps ==
    {d \in [Roles -> UNION {DepLists(i) : i \in Roles}] :
        /\ \A i \in Roles : d[i] \in DepLists(i)
        /\ ~check_cycle(resolve_dependencies(d))}

\* roleIndex values of an update: every role, the last role counted from the
\* end (-1), and the first index past the list.
IndexInputs == (-1)..NumRoles

\* A completed update reports the role's result, as the orchestrator sends it;
\* the other updates carry no result.
UpdateInputs ==
    {[roleIndex |-> i, status |-> s] :
        i \in (-1)..(NumRoles - 1), s \in Statuses \ {"completed"}}
    \cup {[roleIndex |-> i, status |-> "completed", result |-> "done"] :
              i \in (-1)..(NumRoles - 1)}
    \cup {[roleIndex |-> NumRoles, status |-> "failed"],
          [status |-> "failed"],
          [roleIndex |-> 0]}

\* The updates a batch of two or more is built from: the requests some
\* transition allows, on every role, and one update of each skipped kind.
ChainInputs ==
    {u \in UpdateInputs :
        \/ "roleIndex" \notin DOMAIN u
        \/ "status" \notin DOMAIN u
        \/ u.roleIndex = NumRoles
        \/ u.roleIndex \in Roles
           /\ u.status \in {"pending", "in_progress", "completed", "failed"}}

BatchesUpTo(n) ==
    {<<u>> : u \in UpdateInputs} \cup UNION {[1..k -> ChainInputs] : k \in 0..n}

\* ------------------------------------------------------------ specification
\* Spec: the commands run one after another on a plan as finalize leaves it
\* (dependencies resolved and acyclic, every role with its fields, nothing
\* completed yet), each update-status call carrying up to MaxSeqBatch updates.
Init ==
    /\ names = DefaultNames(Roles)
    /\ planKeys = {"roles", "progress"}
    /\ deps \in FinalizedDeps
    /\ status \in [Roles -> {"pending", "blocked"}]
    /\ attempts = [i \in Roles |-> 0]
    /\ result = [i \in Roles |-> "null"]
    /\ fields = [i \in Roles |-> FullKeys]
    /\ scope = [i \in Roles |-> IF deps[i] = <<>> THEN {"directories"}
                                 ELSE {"directories", "dependencies"}]
    /\ completedRoles = <<>>
    /\ directoryOverlaps = [i \in PlanRoles |-> <<>>]
    /\ echo = FALSE
    /\ loaded = NoDoc
    /\ stdin = <<>>
    /\ out = Quiet
    /\ NoIO

Next ==
    \/ \E updates \in BatchesUpTo(MaxSeqBatch) : cmd_update_status(updates)
    \/ cmd_resume_reset
    \/ cmd_finalize(PlanPath)

Spec == Init /\ [][Next]_vars

\* SpecStep: one command, with batches of up to MaxBatch updates, on a plan
\* with any assignment of statuses; a completed role is as update-status
\* leaves it (trimmed, recorded in completedRoles).
InitStep ==
    /\ names = DefaultNames(Roles)
    /\ planKeys = {"roles", "progress"}
    /\ deps \in FinalizedDeps
    /\ status \in [Roles -> Statuses]
    /\ attempts = [i \in Roles |-> 0]
    /\ result = [i \in Roles |-> "null"]
    /\ fields = [i \in Roles |-> IF status[i] = "completed" THEN KeepKeys
                                  ELSE FullKeys]
    /\ scope = [i \in Roles |->
                  IF status[i] = "completed" THEN {"dependencies"}
                  ELSE IF deps[i] = <<>> THEN {"directories"}
                  ELSE {"directories", "dependencies"}]
    /\ completedRoles =
          LET done == SortedSeq({i \in Roles : status[i] = "completed"})
          IN [k \in 1..Len(done) |-> RoleName(done[k])]
    /\ directoryOverlaps = [i \in PlanRoles |-> <<>>]
    /\ echo = TRUE
    /\ loaded = NoDoc
    /\ stdin = <<>>
    /\ out = Quiet
    /\ NoIO

NextStep ==
    /\ out = Quiet
    /\ \/ \E updates \in BatchesUpTo(MaxBatch) : cmd_update_status(updates)
       \/ cmd_resume_reset
       \/ cmd_finalize(PlanPath)

SpecStep == InitStep /\ [][NextStep]_vars

\* SpecCascade: _compute_cascading_failures as a function, applied twice in
\* a row to any dependency graph (cycles included), any assignment of statuses
\* and any newly-failed list (kept in stdin).
AnyDeps == {d \in [Roles -> UNION {DepLists(i) : i \in Roles}] :
               \A i \in Roles : d[i] \in DepLists(i)}

InitCascade ==
    /\ names = DefaultNames(Roles)
    /\ planKeys = {"roles", "progress"}
    /\ deps \in AnyDeps
    /\ status \in [Roles -> Statuses]
    /\ attempts = [i \in Roles |-> 0]
    /\ result = [i \in Roles |-> "null"]
    /\ fields = [i \in Roles |-> FullKeys]
    /\ scope = [i \in Roles |-> {"directories", "dependencies"}]
    /\ completedRoles = <<>>
    /\ directoryOverlaps = [i \in PlanRoles |-> <<>>]
    /\ echo = TRUE
    /\ loaded = NoDoc
    /\ stdin \in {SortedSeq(F) : F \in SUBSET Roles}
    /\ out = Quiet
    /\ NoIO

call_compute_cascading_failures ==
    /\ out = Quiet \/ (out.op = "cascade" /\ out.round < MaxCascadeCalls)
    /\ LET c == compute_cascading_failures(status, resolve_dependencies(deps), stdin)
       IN /\ status' = c.status
          /\ loaded' = [status |-> status]
          /\ out' = [op |-> "cascade",
                     round |-> IF out = Quiet THEN 1 ELSE out.round + 1,
                     cascaded |-> c.cascaded,
                     first |-> IF out = Quiet THEN c.cascaded ELSE out.first]
    /\ UNCHANGED <<names, planKeys, deps, attempts, result, fields, scope,
                   completedRoles, directoryOverlaps, echo, stdin>>
    /\ UNCHANGED iovars

SpecCascade == InitCascade /\ [][call_compute_cascading_failures]_vars

\* ------------------------------------------------------- claims: vocabulary
\* The transition table of the specification, written out.
LegalTable ==
    {<<"pending", "in_progress">>, <<"in_progress", "completed">>,
     <<"in_progress", "failed">>, <<"failed", "pending">>}

Terminal == {"completed", "skipped", "blocked"}

RanUpdateStatus == out.op = "update-status"

\* An update that asks for a status change of a role.
Requests(u) ==
    /\ "roleIndex" \in DOMAIN u
    /\ "status" \in DOMAIN u
    /\ u.roleIndex < NumRoles

\* The role an update is applied to (an index below 0 counts from the end).
Target(u) == IF u.roleIndex < 0 THEN NumRoles + u.roleIndex ELSE u.roleIndex

NoNegativeIndex(batch) ==
    \A k \in 1..Len(batch) : "roleIndex" \in DOMAIN batch[k] => batch[k].roleIndex >= 0

\* The batch replayed on the statuses st, update by update, against LegalTable:
\* whether some request is illegal, the statuses reached, the roles set to
\* failed and the number of failed->pending resets of each role.
RECURSIVE Replay(_, _, _)
Replay(batch, k, acc) ==
    IF k > Len(batch) THEN acc
    ELSE LET u == batch[k]
         IN IF ~Requests(u) THEN Replay(batch, k + 1, acc)
            ELSE LET n == Target(u)
                 IN IF <<acc.st[n], u.status>> \notin LegalTable
                    THEN [acc EXCEPT !.illegal = TRUE]
                    ELSE Replay(batch, k + 1,
                           [acc EXCEPT
                              !.st[n] = u.status,
                              !.steps[n] = @ + 1,
                              !.failed = IF u.status = "failed" THEN @ \cup {n} ELSE @,
                              !.resets[n] = IF u.status = "pending" THEN @ + 1 ELSE @])

Replayed ==
    Replay(stdin, 1, [illegal |-> FALSE, st |-> loaded.status, failed |-> {},
                      steps |-> [n \in Roles |-> 0],
                      resets |-> [n \in Roles |-> 0]])

\* The roles role i declares as dependencies.
DepSet(i) == {j \in Roles : \E k \in 1..Len(deps[i]) : deps[i][k] = RoleName(j)}

\* The roles that depend, directly or indirectly, on a member of F; F excluded.
RECURSIVE Dependents(_)
Dependents(S) ==
    LET T == S \cup {i \in Roles : DepSet(i) \cap S # {}}
    IN IF T = S THEN S ELSE Dependents(T)

ForwardClosure(F) == Dependents(F) \ F

C2_BatchAbortsWhole ==
    (RanUpdateStatus /\ NoNegativeIndex(stdin) /\ Replayed.illegal)
        => /\ ~out.ok
           /\ Doc = loaded

C2_Witness ==
    /\ RanUpdateStatus /\ ~out.ok /\ Len(stdin) = 2
    /\ Requests(stdin[1]) /\ stdin[1].roleIndex \in Roles
    /\ loaded.status[stdin[1].roleIndex] = "in_progress"
    /\ stdin[1].status = "failed"
    /\ \E i \in Roles : /\ stdin[1].roleIndex \in DepSet(i)
                        /\ loaded.status[i] = "pending"
                        /\ status[i] = "pending"

\* C3: after a successful batch that set the roles F to failed, every role of
\* the forward closure of F that is pending once the direct updates are applied
\* ends skipped, and every other role keeps the status the direct updates left.
C3_CascadeSkipsClosure ==
    (RanUpdateStatus /\ out.ok)
        => \A n \in Roles :
              status[n] = IF n \in ForwardClosure(Replayed.failed)
                             /\ Replayed.st[n] = "pending"
                          THEN "skipped" ELSE Replayed.st[n]

\* C4: a legal failed->pending transition applied by update-status adds exactly
\* one to the role's attempts, and no other legal transition changes attempts.
C4_RetryCountsAttempt ==
    (RanUpdateStatus /\ out.ok)
        => \A n \in Roles : attempts[n] = loaded.attempts[n] + Replayed.resets[n]

\* Whether t is reached from s by at most k transitions of LegalTable.
RECURSIVE ReachIn(_, _, _)
ReachIn(s, t, k) ==
    \/ s = t
    \/ /\ k > 0
       /\ \E m \in Statuses : <<s, m>> \in LegalTable /\ ReachIn(m, t, k - 1)

\* C5 (as stated): every change of a role's status by one operation is a chain
\* of legal transitions of the batch or the cascade's pending->skipped, and no
\* operation moves a role from in_progress back to pending.
C5_NeverBackToPending ==
    out # Quiet
        => \A n \in Roles :
              LET s == loaded.status[n]
                  t == status[n]
              IN /\ \/ ReachIn(s, t, Len(stdin))
                    \/ ReachIn(s, "pending", Len(stdin)) /\ t = "skipped"
                 /\ ~(s = "in_progress" /\ t = "pending")

\* C5 (amended): update-status changes a role's status by a chain of legal
\* transitions, one per update of the batch on that role, then possibly by the
\* cascade's pending->skipped, and takes a role from in_progress to pending
\* only through failed; resume-reset changes exactly the roles in progress, to
\* pending, a change the table does not hold; finalize changes no status.
C5_ChangesPerOperation ==
    /\ RanUpdateStatus
        => \A n \in Roles :
              LET s == loaded.status[n]
                  t == status[n]
                  k == Replayed.steps[n]
              IN /\ \/ ReachIn(s, t, k)
                    \/ ReachIn(s, "pending", k) /\ t = "skipped"
                 /\ (s = "in_progress" /\ t = "pending") => n \in Replayed.failed
    /\ out.op = "resume-reset"
        => \A n \in Roles :
              status[n] = IF loaded.status[n] = "in_progress" THEN "pending"
                          ELSE loaded.status[n]
    /\ out.op = "finalize" => status = loaded.status

C5_Witness ==
    /\ out.op = "resume-reset"
    /\ \E n \in Roles : loaded.status[n] = "in_progress" /\ status[n] = "pending"
    /\ <<"in_progress", "pending">> \notin LegalTable

\* C6: a role that is completed, skipped or blocked keeps that status through
\* every later update-status (cascade included), resume-reset and finalize.
C6_TerminalIsPermanent ==
    [][\A n \in Roles : status[n] \in Terminal => status'[n] = status[n]]_vars

\* A role skipped by a cascade, still skipped after its failed dependency was
\* retried and completed.
C6_Witness ==
    \E n \in Roles : \E d \in DepSet(n) :
        /\ status[n] = "skipped"
        /\ status[d] = "completed"
        /\ DepSet(n) = {d}

\* The declared dependencies of role i as indices, in declared order.
DeclaredIdx(i) ==
    [k \in 1..Len(deps[i]) |-> CHOOSE j \in Roles : RoleName(j) = deps[i][k]]

\* The status of role d at the moment the cascade handles role idx: the roles
\* of the closure are handled in increasing index order.
AtMoment(d, idx) ==
    IF d \in ForwardClosure(Range(stdin)) /\ loaded.status[d] = "pending" /\ d <= idx
    THEN "skipped" ELSE loaded.status[d]

ExpectedCause(idx) ==
    LET ds == DeclaredIdx(idx)
        hits == {k \in 1..Len(ds) :
                    \/ ds[k] \in Range(stdin)
                    \/ AtMoment(ds[k], idx) \in {"failed", "blocked", "skipped"}}
    IN IF hits # {} THEN ds[CHOOSE k \in hits : \A m \in hits : k <= m]
       ELSE IF Len(ds) > 0 THEN ds[1] ELSE -1

\* C7: the cascaded list holds exactly the roles the cascade skipped, each
\* with the first dependency in declared order that is newly failed or is
\* failed, blocked or skipped at that moment, else the first declared
\* dependency, else none (-1); on the chain a, b (deps a), c (deps b) with a
\* newly failed, b's cause is a and c's cause is b.
C7_CascadeCause ==
    (out.op = "cascade" /\ out.round = 1)
        => /\ {out.cascaded[k].roleIndex : k \in 1..Len(out.cascaded)}
                 = {n \in Roles : loaded.status[n] = "pending" /\ status[n] = "skipped"}
           /\ \A k \in 1..Len(out.cascaded) :
                 out.cascaded[k].cause = ExpectedCause(out.cascaded[k].roleIndex)
           /\ (/\ deps[0] = <<>> /\ deps[1] = <<RoleName(0)>> /\ deps[2] = <<RoleName(1)>>
               /\ stdin = <<0>>
               /\ loaded.status[1] = "pending" /\ loaded.status[2] = "pending")
                 => /\ [roleIndex |-> 1, status |-> "skipped", cause |-> 0]
                          \in Range(out.cascaded)
                    /\ [roleIndex |-> 2, status |-> "skipped", cause |-> 1]
                          \in Range(out.cascaded)

\* A skipped role whose cause is not its first declared dependency.
C7_Witness ==
    /\ out.op = "cascade" /\ out.round = 1
    /\ \E k \in 1..Len(out.cascaded) :
          out.cascaded[k].cause # DeclaredIdx(out.cascaded[k].roleIndex)[1]

\* C8: the cascade applied a second time, with the same newly-failed list, to
\* the result of the first application changes no status and reports nothing.
C8_CascadeIdempotent ==
    (out.op = "cascade" /\ out.round >= 2)
        => /\ status = loaded.status
           /\ out.cascaded = <<>>

C8_Witness ==
    /\ out.op = "cascade" /\ out.round = 2
    /\ Len(out.first) >= 2

\* C9: for a pending role a request of completed is rejected and leaves the
\* document as it was; a request of in_progress is accepted and trims nothing;
\* the request of completed that follows is accepted and reports the role in
\* trimmed.
C9_PendingToCompleted ==
    (RanUpdateStatus /\ Len(stdin) = 1 /\ Requests(stdin[1])
        /\ stdin[1].roleIndex \in Roles)
        => LET n == stdin[1].roleIndex
               s == loaded.status[n]
               t == stdin[1].status
           IN /\ (s = "pending" /\ t = "completed")
                    => ~out.ok /\ status[n] = "pending" /\ Doc = loaded
              /\ (s = "pending" /\ t = "in_progress")
                    => out.ok /\ status[n] = "in_progress" /\ out.trimmed = <<>>
              /\ (s = "in_progress" /\ t = "completed")
                    => out.ok /\ status[n] = "completed" /\ out.trimmed = <<n>>

C9_Witness ==
    /\ RanUpdateStatus /\ out.ok /\ Len(stdin) = 1
    /\ \E n \in Roles : /\ stdin[1] = [roleIndex |-> n, status |-> "completed",
                                       result |-> "done"]
                        /\ loaded.status[n] = "in_progress"
                        /\ out.trimmed = <<n>>

NoDuplicates(seq) == \A a, b \in 1..Len(seq) : a # b => seq[a] # seq[b]

\* C10: a role is trimmed and recorded in completedRoles exactly when it
\* enters completed: it then keeps only name, goal, status, result, model,
\* attempts and a scope holding its dependencies alone, and its name is in
\* completedRoles; no other step changes a role's keys or adds its name; and
\* completedRoles never holds a name twice.
C10_TrimOnCompletion ==
    [][/\ \A n \in Roles :
            LET entering == status[n] # "completed" /\ status'[n] = "completed"
            IN /\ entering
                  => /\ fields'[n] \subseteq {"name", "goal", "status", "result",
                                              "model", "attempts", "scope"}
                     /\ scope'[n] = {"dependencies"}
                     /\ RoleName(n) \in Range(completedRoles')
               /\ ~entering
                  => /\ fields'[n] = fields[n]
                     /\ scope'[n] = scope[n]
                     /\ RoleName(n) \in Range(completedRoles')
                           <=> RoleName(n) \in Range(completedRoles)
       /\ NoDuplicates(completedRoles')]_vars

C10_Witness ==
    /\ Len(completedRoles) >= 2
    /\ \E n \in Roles : /\ status[n] = "completed"
                        /\ "acceptanceCriteria" \notin fields[n]
                        /\ scope[n] = {"dependencies"}
    /\ \E n \in Roles : status[n] = "in_progress" /\ fields[n] = FullKeys

\* ------------------------------------------------------------ the plan file
\* bounds
MaxFaults == 1

\* The two invocations that may run against the plan file at once.
Procs == {1, 2}

Other(p) == CHOOSE q \in Procs : q # p

\* json.dump writes the document piece after piece, the roles in their order:
\* one chunk per role, holding the role's status.
json_dump(data) == [k \in 1..NumRoles |-> data[k - 1]]

\* A byte range a write skipped over.
Hole == "\\0"

\* json.load: the document, or a JSONDecodeError (ok false) where the bytes
\* are not a whole document.
json_load(bytes) ==
    IF Len(bytes) = NumRoles /\ \A k \in 1..Len(bytes) : bytes[k] \in Statuses
    THEN [ok |-> TRUE, status |-> [i \in Roles |-> bytes[i + 1]]]
    ELSE [ok |-> FALSE, status |-> <<>>]

\* disk.names maps the names that exist to their files; disk.bytes holds each
\* file's content, also of a file that has lost its name and is still open.
exists(d, name) == name \in DOMAIN d.names

read_file(d, name) == d.bytes[d.names[name]]

\* open(name, "w"): an existing file is truncated, a missing one is created.
open_w(d, name) ==
    IF exists(d, name)
    THEN [disk |-> [d EXCEPT !.bytes[d.names[name]] = <<>>], fd |-> d.names[name]]
    ELSE LET ino == Len(d.bytes) + 1
         IN [disk |-> [names |-> [n \in DOMAIN d.names \cup {name} |->
                                     IF n = name THEN ino ELSE d.names[n]],
                       bytes |-> Append(d.bytes, <<>>)],
             fd |-> ino]

\* f.write of one chunk at the descriptor's position.
write_at(d, fd, pos, chunk) ==
    LET old == d.bytes[fd]
        len == IF Len(old) > pos + 1 THEN Len(old) ELSE pos + 1
    IN [d EXCEPT !.bytes[fd] =
           [k \in 1..len |-> IF k = pos + 1 THEN chunk
                             ELSE IF k <= Len(old) THEN old[k] ELSE Hole]]

\* Mutant: the source keeps its name.
rename_keep_source(d, src, dst) ==
    [d EXCEPT !.names = [n \in DOMAIN d.names \cup {dst} |->
                           IF n = dst THEN d.names[src] ELSE d.names[n]]]

\* os.rename(src, dst), src existing.
rename(d, src, dst) ==
    IF src = dst THEN d
    ELSE [d EXCEPT !.names = [n \in (DOMAIN d.names \cup {dst}) \ {src} |->
                                IF n = dst THEN d.names[src] ELSE d.names[n]]]

\* os.remove(name), name existing.
remove(d, name) ==
    [d EXCEPT !.names = [n \in DOMAIN d.names \ {name} |-> d.names[n]]]

\* Mutant: the document is written in place.
tmp_path_in_place(path) == path

tmp_path(path) == path \o ".tmp"

\* Mutant: the handler leaves the temp file where it is.
except_OSError_keep(d, path) == d

\* The except clause of atomic_write, before it re-raises.
except_OSError(d, path) ==
    IF exists(d, tmp_path(path)) THEN remove(d, tmp_path(path)) ELSE d

\* An invocation that has not touched the directory.
Untouched(p) == procs[p].pc \in {"start", "loaded", "rejected"}

\* The I/O errors the environment has raised so far.
Faults == Cardinality({p \in Procs : procs[p].fault # "none"})

\* cmd_update_status up to its call of atomic_write: load the plan, apply the
\* updates in memory, cascade.
load_and_compute(p) ==
    /\ procs[p].pc = "start"
    /\ LET plan == json_load(read_file(disk, PlanPath))
       IN IF ~plan.ok
          THEN procs' = [procs EXCEPT ![p].pc = "rejected"]
          ELSE LET mem == update_loop(procs[p].updates, 1,
                                      [LoadedPlan EXCEPT !.status = plan.status])
                   casc == compute_cascading_failures(
                               mem.status, resolve_dependencies(deps),
                               mem.newly_failed)
               IN procs' = [procs EXCEPT
                      ![p].pc = IF mem.error THEN "rejected" ELSE "loaded",
                      ![p].data = casc.status,
                      ![p].behind = ~Untouched(Other(p))]
    /\ UNCHANGED <<docvars, echo, loaded, stdin, out, dirs, disk, lastRead, failures>>

\* atomic_write, the open of the temp file.
open_tmp(p) ==
    /\ procs[p].pc = "loaded"
    /\ \/ LET o == open_w(disk, tmp_path(PlanPath))
          IN /\ disk' = o.disk
             /\ procs' = [procs EXCEPT
                    ![p].pc = "opened", ![p].fd = o.fd, ![p].pos = 0,
                    ![p].overlap = procs[Other(p)].pc \in {"opened", "except"}]
       \/ /\ Faults < MaxFaults
          /\ procs' = [procs EXCEPT ![p].pc = "except", ![p].fault = "open"]
          /\ UNCHANGED disk
    /\ UNCHANGED <<docvars, echo, loaded, stdin, out, dirs, lastRead, failures>>

\* atomic_write, json.dump: the next chunk.
dump_chunk(p) ==
    /\ procs[p].pc = "opened"
    /\ procs[p].pos < Len(json_dump(procs[p].data))
    /\ \/ /\ disk' = write_at(disk, procs[p].fd, procs[p].pos,
                              json_dump(procs[p].data)[procs[p].pos + 1])
          /\ procs' = [procs EXCEPT ![p].pos = @ + 1]
       \/ /\ Faults < MaxFaults
          /\ procs' = [procs EXCEPT ![p].pc = "except", ![p].fault = "write"]
          /\ UNCHANGED disk
    /\ UNCHANGED <<docvars, echo, loaded, stdin, out, dirs, lastRead, failures>>

\* atomic_write, os.rename once the file is closed; the invocation then
\* reports ok.  A temp file that is gone makes the rename raise.
rename_tmp(p) ==
    /\ procs[p].pc = "opened"
    /\ procs[p].pos = Len(json_dump(procs[p].data))
    /\ \/ /\ exists(disk, tmp_path(PlanPath))
          /\ disk' = rename(disk, tmp_path(PlanPath), PlanPath)
          /\ procs' = [procs EXCEPT ![p].pc = "done"]
       \/ /\ ~exists(disk, tmp_path(PlanPath))
          /\ procs' = [procs EXCEPT ![p].pc = "except"]
          /\ UNCHANGED disk
       \/ /\ Faults < MaxFaults
          /\ procs' = [procs EXCEPT ![p].pc = "except", ![p].fault = "rename"]
          /\ UNCHANGED disk
    /\ UNCHANGED <<docvars, echo, loaded, stdin, out, dirs, lastRead, failures>>

\* atomic_write, the except clause; the error leaves the invocation uncaught.
raise_OSError(p) ==
    /\ procs[p].pc = "except"
    /\ disk' = except_OSError(disk, PlanPath)
    /\ procs' = [procs EXCEPT ![p].pc = "raised"]
    /\ UNCHANGED <<docvars, echo, loaded, stdin, out, dirs, lastRead, failures>>

\* A reader loads the plan file; it notes where the invocations stood.
read_plan ==
    /\ \E p \in Procs : procs[p].pc \in {"opened", "except", "done"}
    /\ lastRead' = [bytes |-> read_file(disk, PlanPath),
                    pos |-> [p \in Procs |-> procs[p].pos]]
    /\ UNCHANGED <<docvars, echo, loaded, stdin, out, dirs, disk, procs, failures>>

\* The updates of the two invocations: one update each, on any role.
RaceUpdates ==
    {<<[roleIndex |-> i, status |-> s]>> : i \in Roles, s \in {"in_progress", "failed"}}

\* SpecWrite: two update-status invocations and a reader against one plan
\* file, step by step; the environment may fail up to MaxFaults of the
\* writer's system calls.  The document is the roles' statuses; status keeps
\* the document as it was before the invocations.
InitWrite ==
    /\ names = DefaultNames(Roles)
    /\ planKeys = {"roles", "progress"}
    /\ deps = [i \in Roles |-> <<>>]
    /\ status \in [Roles -> {"pending", "in_progress"}]
    /\ attempts = [i \in Roles |-> 0]
    /\ result = [i \in Roles |-> "null"]
    /\ fields = [i \in Roles |-> FullKeys]
    /\ scope = [i \in Roles |-> {"directories"}]
    /\ completedRoles = <<>>
    /\ directoryOverlaps = [i \in PlanRoles |-> <<>>]
    /\ echo = TRUE
    /\ loaded = NoDoc
    /\ stdin = <<>>
    /\ out = Quiet
    /\ dirs = <<>>
    /\ \E stale \in BOOLEAN :
          disk = IF stale
                 THEN [names |-> [n \in {PlanPath, tmp_path(PlanPath)} |->
                                     IF n = PlanPath THEN 1 ELSE 2],
                       bytes |-> <<json_dump(status), <<status[0]>> >>]
                 ELSE [names |-> [n \in {PlanPath} |-> 1],
                       bytes |-> <<json_dump(status)>>]
    /\ procs \in [Procs -> {[pc |-> "start", updates |-> u, data |-> status,
                             fd |-> 0, pos |-> 0, fault |-> "none",
                             behind |-> FALSE, overlap |-> FALSE] :
                            u \in RaceUpdates}]
    /\ lastRead = [bytes |-> json_dump(status), pos |-> [p \in Procs |-> 0]]
    /\ failures = <<>>

NextWrite ==
    \/ \E p \in Procs : load_and_compute(p)
    \/ \E p \in Procs : open_tmp(p)
    \/ \E p \in Procs : dump_chunk(p)
    \/ \E p \in Procs : rename_tmp(p)
    \/ \E p \in Procs : raise_OSError(p)
    \/ read_plan

SpecWrite == InitWrite /\ [][NextWrite]_vars

\* ------------------------------------------------------ claims: the plan file
\* The invocation's update asks for a change of role Aim(p).
Aim(p) == procs[p].updates[1].roleIndex

Finished(p) == procs[p].pc \in {"done", "raised"}

\* Both invocations loaded the plan before either touched the directory, on
\* different roles, with no I/O error from the environment, and both ended.
Raced ==
    /\ \A p \in Procs : Finished(p) /\ ~procs[p].behind /\ procs[p].fault = "none"
    /\ Aim(1) # Aim(2)

\* The two writes ran at the same time: one opened the temp file while the
\* other had it open.
Overlapped == \E p \in Procs : procs[p].overlap

\* The plan file holds the document of last; the update of the other
\* invocation is not in it, though that invocation reported ok.
LostTo(last) ==
    LET plan == json_load(read_file(disk, PlanPath))
        first == Other(last)
    IN /\ plan.ok
       /\ plan.status = procs[last].data
       /\ plan.status[Aim(first)] = status[Aim(first)]
       /\ procs[first].pc = "done"

\* C11: when an I/O error from the environment fails atomic_write at the
\* open of the temp file, at a write or at the rename, and no other
\* invocation touches the directory, then once the error has left
\* atomic_write the plan file holds its previous bytes, the temp file does
\* not exist and the invocation has ended with the error.
C11_FailedWriteLeavesFile ==
    \A p \in Procs :
        (procs[p].fault # "none" /\ procs[p].pc # "except" /\ Untouched(Other(p)))
        => /\ procs[p].pc = "raised"
           /\ read_file(disk, PlanPath) = json_dump(status)
           /\ ~exists(disk, tmp_path(PlanPath))

\* A write failed partway, with the temp file holding a part of the new
\* document, and the error has been raised.
C11_Witness ==
    \E p \in Procs :
        /\ procs[p].fault = "write"
        /\ procs[p].pos \in 1..(NumRoles - 1)
        /\ procs[p].pc = "raised"
        /\ procs[p].data # status
        /\ Untouched(Other(p))

\* C12: with one invocation writing, every read of the plan file returns the
\* whole old document or the whole new one.
C12_ReaderSeesWholeDocument ==
    \A p \in Procs :
        Untouched(Other(p))
        => LET got == json_load(lastRead.bytes)
           IN got.ok /\ got.status \in {status, procs[p].data}

\* A read that fell between two writes of the new document.
C12_Witness ==
    \E p \in Procs :
        /\ Untouched(Other(p))
        /\ lastRead.pos[p] \in 1..(NumRoles - 1)
        /\ procs[p].data # status
        /\ procs[p].pc = "done"

MaxPlanRoles == 5
MaxFreeRoles == 3

\* Mutant: a skipped dependency does not hold a role back.
blocking_statuses_no_skipped == {"failed", "blocked"}

\* The statuses of a dependency that keep a pending role out of the pool.
blocking_statuses == {"failed", "blocked", "skipped"}

\* The runnable list of cmd_worker_pool.
runnable_roles(st, dep_indices) ==
    SelectSeq(RoleList, LAMBDA i :
        /\ st[i] = "pending"
        /\ \A k \in 1..Len(dep_indices[i]) :
              st[dep_indices[i][k]] \notin blocking_statuses)

\* Mutant: the number of depths the runnable roles sit at.
max_width_depth_count(runnable, depths) ==
    Cardinality({depths[runnable[k]] : k \in 1..Len(runnable)})

\* depth_groups and max_width, for a runnable list that is not empty.
max_width(runnable, depths) ==
    LET depth_groups == [d \in {depths[runnable[k]] : k \in 1..Len(runnable)} |->
                            SelectSeq(runnable, LAMBDA i : depths[i] = d)]
    IN CHOOSE w \in {Len(depth_groups[d]) : d \in DOMAIN depth_groups} :
           \A d \in DOMAIN depth_groups : Len(depth_groups[d]) <= w

\* The characters of the role names: what lower() maps, what the first
\* substitution turns into a hyphen, what the second keeps.
UpperCase == {"A", "W"}

LowerCase == {"a", "w", "o", "r", "k", "e"}

Digits == {"0", "1", "2", "3", "4", "5", "6", "7", "8", "9"}

Blank == {"_", " "}

lower(c) == IF c = "A" THEN "a" ELSE IF c = "W" THEN "w" ELSE c

\* re.sub(r"[_\s]+", "-", slug): each run of underscores and blanks is one hyphen.
RECURSIVE sub_blank_runs(_)
sub_blank_runs(s) ==
    IF s = <<>> THEN <<>>
    ELSE IF Head(s) \in Blank
    THEN IF Tail(s) # <<>> /\ Head(Tail(s)) \in Blank
         THEN sub_blank_runs(Tail(s))
         ELSE <<"-">> \o sub_blank_runs(Tail(s))
    ELSE <<Head(s)>> \o sub_blank_runs(Tail(s))

\* re.sub(r"[^a-z0-9-]", "", slug)
drop_other(s) == SelectSeq(s, LAMBDA c : c \in LowerCase \cup Digits \cup {"-"})

\* re.sub(r"-{2,}", "-", slug)
RECURSIVE sub_hyphen_runs(_)
sub_hyphen_runs(s) ==
    IF s = <<>> THEN <<>>
    ELSE IF Head(s) = "-" /\ Tail(s) # <<>> /\ Head(Tail(s)) = "-"
    THEN sub_hyphen_runs(Tail(s))
    ELSE <<Head(s)>> \o sub_hyphen_runs(Tail(s))

\* slug.strip("-")
RECURSIVE strip_hyphens(_)
strip_hyphens(s) ==
    IF s = <<>> THEN <<>>
    ELSE IF Head(s) = "-" THEN strip_hyphens(Tail(s))
    ELSE IF s[Len(s)] = "-" THEN strip_hyphens(SubSeq(s, 1, Len(s) - 1))
    ELSE s

WorkerSlug == <<"w", "o", "r", "k", "e", "r">>

slugify_role(role) ==
    LET slug == strip_hyphens(sub_hyphen_runs(drop_other(sub_blank_runs(
                    [k \in 1..Len(role) |-> lower(role[k])]))))
    IN IF slug = <<>> THEN WorkerSlug ELSE slug

\* str(k) of a suffix, in decimal digits.
RECURSIVE str(_)
str(k) ==
    IF k < 10 THEN <<ToString(k)>> ELSE str(k \div 10) \o <<ToString(k % 10)>>

\* f"{slug}-{suffix}"
with_suffix(slug, suffix) == slug \o <<"-">> \o str(suffix)

\* Mutant: the suffix is 2 whatever is in use.
deduplicate_slug_two(slug, used_slugs) ==
    IF slug \notin used_slugs THEN slug ELSE with_suffix(slug, 2)

RECURSIVE first_free_suffix(_, _, _)
first_free_suffix(slug, used_slugs, suffix) ==
    IF with_suffix(slug, suffix) \in used_slugs
    THEN first_free_suffix(slug, used_slugs, suffix + 1)
    ELSE suffix

deduplicate_slug(slug, used_slugs) ==
    IF slug \notin used_slugs THEN slug
    ELSE with_suffix(slug, first_free_suffix(slug, used_slugs, 2))

\* The workers list: one worker per runnable role, named in list order.
RECURSIVE name_workers(_, _, _)
name_workers(runnable, used_slugs, workers) ==
    IF runnable = <<>> THEN workers
    ELSE LET i == Head(runnable)
             slug == deduplicate_slug(slugify_role(RoleName(i)), used_slugs)
         IN name_workers(Tail(runnable), used_slugs \cup {slug},
                         Append(workers, [name |-> slug, role |-> RoleName(i),
                                          roleIndex |-> i]))

cmd_worker_pool ==
    LET dep_indices == resolve_dependencies(deps)
        runnable == runnable_roles(status, dep_indices)
    IN /\ out' = IF runnable = <<>>
                 THEN [op |-> "worker-pool", ok |-> TRUE, workers |-> <<>>,
                       maxConcurrency |-> 0, totalWorkers |-> 0]
                 ELSE [op |-> "worker-pool", ok |-> TRUE,
                       workers |-> name_workers(runnable, {}, <<>>),
                       maxConcurrency |-> max_width(runnable, compute_depths(dep_indices)),
                       totalWorkers |-> Len(runnable)]
       /\ UNCHANGED <<docvars, echo, loaded, stdin, iovars>>

\* Mutant: half the pending roles are not enough, it takes more than half.
should_abort_majority(total_roles, pending_count, would_be_skipped) ==
    /\ total_roles > 3
    /\ pending_count > 0
    /\ 2 * would_be_skipped > pending_count

\* Mutant: small plans are not bypassed.
should_abort_no_bypass(total_roles, pending_count, would_be_skipped) ==
    /\ pending_count > 0
    /\ 2 * would_be_skipped >= pending_count

\* would_be_skipped >= pending_count * 0.5, in integers.
should_abort(total_roles, pending_count, would_be_skipped) ==
    /\ total_roles > 3
    /\ pending_count > 0
    /\ 2 * would_be_skipped >= pending_count

cmd_circuit_breaker ==
    LET dep_indices == resolve_dependencies(deps)
        total_roles == Cardinality(PlanRoles)
        pending_count == Cardinality({i \in PlanRoles : status[i] = "pending"})
        failed_indices == SelectSeq(RoleList, LAMBDA i :
                                       status[i] \in {"failed", "blocked"})
        would_skip == get_transitive_deps(dep_indices, failed_indices)
        would_be_skipped == Cardinality({i \in would_skip : status[i] = "pending"})
    IN /\ out' = [op |-> "circuit-breaker", ok |-> TRUE,
                  totalRoles |-> total_roles,
                  pendingCount |-> pending_count,
                  wouldBeSkipped |-> would_be_skipped,
                  shouldAbort |-> should_abort(total_roles, pending_count,
                                               would_be_skipped)]
       /\ UNCHANGED <<docvars, echo, loaded, stdin, iovars>>

\* Plans of up to MaxFreeRoles roles: any declared dependencies (cycles
\* included, in any order) and any statuses.  Larger plans, up to
\* MaxPlanRoles roles: each role depends on at most one earlier role, and the
\* statuses are one of each kind the two queries tell apart.
FreeDepLists(n, i) ==
    LET others == {RoleName(j) : j \in (0..(n - 1)) \ {i}}
    IN {s \in UNION {[1..k -> others] : k \in 0..Cardinality(others)} :
           \A a, b \in 1..Len(s) : a # b => s[a] # s[b]}

ForestDepLists(i) == {<<>>} \cup {<<RoleName(j)>> : j \in 0..(i - 1)}

PlanDeps(n) ==
    IF n <= MaxFreeRoles
    THEN {d \in [0..(n - 1) -> UNION {FreeDepLists(n, i) : i \in 0..(n - 1)}] :
             \A i \in 0..(n - 1) : d[i] \in FreeDepLists(n, i)}
    ELSE {d \in [0..(n - 1) -> UNION {ForestDepLists(i) : i \in 0..(n - 1)}] :
             \A i \in 0..(n - 1) : d[i] \in ForestDepLists(i)}

PlanStatuses(n) ==
    IF n <= MaxFreeRoles THEN Statuses
    ELSE {"pending", "completed", "failed", "skipped"}

\* SpecQuery: worker-pool or circuit-breaker, once, on any such plan.
InitQuery ==
    /\ planKeys = {"roles", "progress"}
    /\ \E n \in 1..MaxPlanRoles :
          /\ names = DefaultNames(0..(n - 1))
          /\ deps \in PlanDeps(n)
          /\ status \in [0..(n - 1) -> PlanStatuses(n)]
    /\ attempts = [i \in PlanRoles |-> 0]
    /\ result = [i \in PlanRoles |-> "null"]
    /\ fields = [i \in PlanRoles |-> FullKeys]
    /\ scope = [i \in PlanRoles |-> {"directories", "dependencies"}]
    /\ completedRoles = <<>>
    /\ directoryOverlaps = [i \in PlanRoles |-> <<>>]
    /\ echo = TRUE
    /\ loaded = NoDoc
    /\ stdin = <<>>
    /\ out = Quiet
    /\ NoIO

NextQuery ==
    /\ out = Quiet
    /\ \/ cmd_worker_pool
       \/ cmd_circuit_breaker

SpecQuery == InitQuery /\ [][NextQuery]_vars

\* ------------------------------------------------------- claims: the queries
\* The roles that role i declares as its dependencies.
DirectDeps(i) == {j \in PlanRoles : \E k \in 1..Len(deps[i]) : deps[i][k] = RoleName(j)}

\* S and every role some member of S depends on, directly or not.
RECURSIVE Upward(_)
Upward(S) ==
    LET T == S \cup UNION {DirectDeps(i) : i \in S}
    IN IF T = S THEN S ELSE Upward(T)

\* The backward closure of role i: what it depends on, directly or not.
BackwardClosure(i) == Upward(DirectDeps(i))

\* S and every role that depends on a member of S, directly or not.
RECURSIVE Downward(_)
Downward(S) ==
    LET T == S \cup {i \in PlanRoles : DirectDeps(i) \cap S # {}}
    IN IF T = S THEN S ELSE Downward(T)

Acyclic == \A i \in PlanRoles : i \notin BackwardClosure(i)

Largest(S) == CHOOSE m \in S : \A x \in S : x <= m

\* The dependency depth in an acyclic graph: 1 for a role without
\* dependencies, else one more than its deepest dependency.
RECURSIVE LongestDepth(_)
LongestDepth(i) ==
    IF DirectDeps(i) = {} THEN 1
    ELSE 1 + Largest({LongestDepth(j) : j \in DirectDeps(i)})

\* Where the graph has a cycle the depth is what compute_depths makes of it.
DepthOf(i) ==
    IF Acyclic THEN LongestDepth(i)
    ELSE compute_depths(resolve_dependencies(deps))[i]

\* The runnable set as the specification defines it.
Runnable ==
    {i \in PlanRoles :
        /\ status[i] = "pending"
        /\ \A j \in DirectDeps(i) : status[j] \notin {"failed", "blocked", "skipped"}}

RanWorkerPool == out.op = "worker-pool"

\* The roles of the workers, in list order.
WorkerRoles == [k \in 1..Len(out.workers) |-> out.workers[k].roleIndex]

RanCircuitBreaker == out.op = "circuit-breaker"

C15_WorkersWaitForDependencies ==
    RanWorkerPool =>
        \A k \in 1..Len(out.workers) :
            \A d \in DirectDeps(WorkerRoles[k]) : status[d] = "completed"

\* C16: totalWorkers is the length of workers and equals the smaller of
\* maxConcurrency and the number of distinct roles in the runnable set, so it
\* never exceeds maxConcurrency.
C16_WorkerCountIsCapped ==
    RanWorkerPool =>
        LET distinct == Cardinality({RoleName(i) : i \in Runnable})
        IN /\ out.totalWorkers = Len(out.workers)
           /\ out.totalWorkers = IF out.maxConcurrency < distinct
                                 THEN out.maxConcurrency ELSE distinct
           /\ out.totalWorkers <= out.maxConcurrency

\* C17: maxConcurrency is the size of the largest group of runnable roles of
\* one depth, the depth taken over the whole graph, and 0 when no role is
\* runnable.
C17_MaxConcurrency ==
    RanWorkerPool =>
        out.maxConcurrency =
            IF Runnable = {} THEN 0
            ELSE Largest({Cardinality({i \in Runnable : DepthOf(i) = d}) :
                             d \in {DepthOf(i) : i \in Runnable}})

\* Five runnable roles of depths 1, 1, 2, 2, 2: maxConcurrency is 3.
C17_Witness ==
    /\ RanWorkerPool
    /\ Cardinality(Runnable) = 5
    /\ Cardinality({i \in Runnable : DepthOf(i) = 1}) = 2
    /\ Cardinality({i \in Runnable : DepthOf(i) = 2}) = 3
    /\ out.maxConcurrency = 3

\* The pending roles in the forward closure of the failed and blocked roles.
WouldSkip ==
    {i \in Downward({f \in PlanRoles : status[f] \in {"failed", "blocked"}}) :
        status[i] = "pending"}

PendingCount == Cardinality({i \in PlanRoles : status[i] = "pending"})

C19_SmallPlansNeverAbort ==
    (RanCircuitBreaker /\ Cardinality(PlanRoles) <= 3) => ~out.shouldAbort

\* A plan of 3 roles whose pending roles would all be skipped.
C19_Witness ==
    /\ RanCircuitBreaker
    /\ Cardinality(PlanRoles) = 3
    /\ PendingCount = 2
    /\ Cardinality(WouldSkip) = 2
    /\ ~out.shouldAbort

\* ----------------------------------------------------------------- overlaps
\* bounds
MaxDirs == 2
MaxOverlapRoles == 4

\* The matrix is keyed by str(i).
cmd_overlap_matrix ==
    LET overlaps_by_role == compute_overlaps(collect_role_dirs,
                                             resolve_dependencies(deps))
    IN /\ out' = [op |-> "overlap-matrix", ok |-> TRUE,
                  matrix |-> [key \in {ToString(i) : i \in DOMAIN overlaps_by_role} |->
                                 overlaps_by_role[CHOOSE i \in DOMAIN overlaps_by_role :
                                                      ToString(i) = key]]]
       /\ UNCHANGED <<docvars, echo, loaded, stdin, dirs, disk, procs, lastRead,
                    failures>>

\* The directories and patterns the roles declare.
PathInputs ==
    {<<"src">>, <<"src", "api", "**">>, <<"src", "api", "v1">>, <<"docs">>}

\* Up to MaxDirs paths per role in a plan of up to MaxFreeRoles roles, at
\* most one in a larger plan.
DirInputs(n) ==
    {D \in SUBSET PathInputs :
        Cardinality(D) <= (IF n <= MaxFreeRoles THEN MaxDirs ELSE 1)}

\* SpecOverlap: overlap-matrix or finalize, once, on a plan of up to MaxOverlapRoles
\* roles, its dependencies as in SpecQuery.
InitOverlap ==
    /\ planKeys = {"roles", "progress"}
    /\ \E n \in 1..MaxOverlapRoles :
          /\ names = DefaultNames(0..(n - 1))
          /\ deps \in PlanDeps(n)
          /\ status = [i \in 0..(n - 1) |-> "pending"]
          /\ dirs \in [0..(n - 1) -> DirInputs(n)]
    /\ attempts = [i \in PlanRoles |-> 0]
    /\ result = [i \in PlanRoles |-> "null"]
    /\ fields = [i \in PlanRoles |-> FullKeys]
    /\ scope = [i \in PlanRoles |-> {"directories", "dependencies"}]
    /\ completedRoles = <<>>
    /\ directoryOverlaps = [i \in PlanRoles |-> <<>>]
    /\ echo = TRUE
    /\ loaded = NoDoc
    /\ stdin = <<>>
    /\ out = Quiet
    /\ disk = <<>>
    /\ procs = <<>>
    /\ lastRead = <<>>
    /\ failures = <<>>

NextOverlap ==
    /\ out = Quiet
    /\ \/ cmd_overlap_matrix
       \/ cmd_finalize(PlanPath)

SpecOverlap == InitOverlap /\ [][NextOverlap]_vars

\* ------------------------------------------------------ claims: the overlaps
\* The matrix records a conflict of role j against the earlier role i.
Recorded(i, j) ==
    /\ ToString(i) \in DOMAIN out.matrix
    /\ j \in Range(out.matrix[ToString(i)])

\* One of the two roles is in the other's backward closure.
Ordered(i, j) == j \in BackwardClosure(i) \/ i \in BackwardClosure(j)

\* C20: the matrix records no conflict between two roles one of which is in
\* the other's backward closure, whatever their scopes; it records one for
\* every other pair i < j whose scopes overlap, and for no pair else.
C20_NoConflictAlongDependencies ==
    out.op = "overlap-matrix" =>
        \A i, j \in PlanRoles :
            Recorded(i, j) <=> (/\ i < j
                                /\ ~Ordered(i, j)
                                /\ dirs_overlap(dirs[i], dirs[j]))

\* Roles 0 and 2 share a scope and are ordered only through role 1: no
\* conflict between them, while a conflict of another pair is recorded.
C20_Witness ==
    /\ out.op = "overlap-matrix"
    /\ Cardinality(PlanRoles) = 4
    /\ dirs_overlap(dirs[0], dirs[2])
    /\ Ordered(0, 2)
    /\ 0 \notin DirectDeps(2) /\ 2 \notin DirectDeps(0)
    /\ ~Recorded(0, 2)
    /\ \E i, j \in PlanRoles : Recorded(i, j)

\* finalize has stored role j in the directoryOverlaps of role i.
Stored(i, j) == j \in Range(directoryOverlaps[i])

\* C21: every entry of _compute_overlaps, in the matrix of overlap-matrix and
\* in the directoryOverlaps finalize stores, pairs a role i with a later role
\* j > i, so of two roles at most one direction is recorded.
C21_OnlyLaterRoleRecorded ==
    /\ out.op = "overlap-matrix" =>
          \A i, j \in PlanRoles :
              /\ Recorded(i, j) => i < j
              /\ ~(Recorded(i, j) /\ Recorded(j, i))
    /\ \A i, j \in PlanRoles :
          /\ Stored(i, j) => i < j
          /\ ~(Stored(i, j) /\ Stored(j, i))

\* finalize on three unordered roles that share a scope: each pair is stored
\* once, under its lower index.
C21_Witness ==
    /\ out.op = "finalize" /\ out.ok
    /\ Cardinality(PlanRoles) = 3
    /\ \A i, j \in PlanRoles : i # j => dirs_overlap(dirs[i], dirs[j])
    /\ directoryOverlaps = (0 :> <<1, 2>> @@ 1 :> <<2>> @@ 2 :> <<>>)

\* -------------------------------------------------------------- graph helpers
\* bounds
MaxGraphRoles == 4
MaxSeeds == 2

\* Dependency lists that may name any role of the plan, the role itself
\* included: in any order in a plan of up to MaxFreeRoles roles, at most two
\* names in index order in a larger one.
GraphDepLists(n) ==
    LET all == {RoleName(j) : j \in 0..(n - 1)}
        idx(nm) == CHOOSE j \in 0..(n - 1) : RoleName(j) = nm
    IN {s \in UNION {[1..k -> all] : k \in 0..2} :
           /\ \A a, b \in 1..Len(s) : a # b => s[a] # s[b]
           /\ n > MaxFreeRoles => \A a, b \in 1..Len(s) : a < b => idx(s[a]) < idx(s[b])}

\* The start lists of get_transitive_deps: up to MaxSeeds roles, repeats included.
SeedInputs == UNION {[1..k -> PlanRoles] : k \in 0..MaxSeeds}

call_compute_depths ==
    /\ out' = [op |-> "compute_depths",
               depths |-> compute_depths(resolve_dependencies(deps))]
    /\ UNCHANGED <<docvars, echo, loaded, stdin, iovars>>

call_check_cycle ==
    /\ out' = [op |-> "check_cycle",
               has_cycle |-> check_cycle(resolve_dependencies(deps))]
    /\ UNCHANGED <<docvars, echo, loaded, stdin, iovars>>

call_get_transitive_deps ==
    \E start_indices \in SeedInputs :
        /\ stdin' = start_indices
        /\ out' = [op |-> "get_transitive_deps",
                   transitive |-> get_transitive_deps(resolve_dependencies(deps),
                                                      start_indices)]
        /\ UNCHANGED <<docvars, echo, loaded, iovars>>

\* SpecGraph: one of the three graph helpers, once, on any dependency graph
\* of up to MaxGraphRoles roles, cycles and self-dependencies included.
InitGraph ==
    /\ planKeys = {"roles", "progress"}
    /\ \E n \in 1..MaxGraphRoles :
          /\ names = DefaultNames(0..(n - 1))
          /\ deps \in [0..(n - 1) -> GraphDepLists(n)]
          /\ status = [i \in 0..(n - 1) |-> "pending"]
    /\ attempts = [i \in PlanRoles |-> 0]
    /\ result = [i \in PlanRoles |-> "null"]
    /\ fields = [i \in PlanRoles |-> FullKeys]
    /\ scope = [i \in PlanRoles |-> {"directories", "dependencies"}]
    /\ completedRoles = <<>>
    /\ directoryOverlaps = [i \in PlanRoles |-> <<>>]
    /\ echo = TRUE
    /\ loaded = NoDoc
    /\ stdin = <<>>
    /\ out = Quiet
    /\ NoIO

NextGraph ==
    /\ out = Quiet
    /\ \/ call_compute_depths
       \/ call_check_cycle
       \/ call_get_transitive_deps

SpecGraph == InitGraph /\ [][NextGraph]_vars

\* ------------------------------------------------- claims: the graph helpers
\* The plan is the diamond a <- {b, c} <- d.
Diamond ==
    /\ Cardinality(PlanRoles) = 4
    /\ DirectDeps(0) = {} /\ DirectDeps(1) = {0}
    /\ DirectDeps(2) = {0} /\ DirectDeps(3) = {1, 2}

\* C22: on an acyclic graph compute_depths gives every role without
\* dependencies depth 1 and every other role one more than the largest depth
\* among its dependencies.
C22_DepthIsLongestPath ==
    (out.op = "compute_depths" /\ Acyclic) =>
        /\ DOMAIN out.depths = PlanRoles
        /\ \A i \in PlanRoles :
              out.depths[i] = IF DirectDeps(i) = {} THEN 1
                              ELSE 1 + Largest({out.depths[j] : j \in DirectDeps(i)})

\* The diamond gets the depths 1, 2, 2, 3.
C22_Witness ==
    /\ out.op = "compute_depths"
    /\ Diamond
    /\ out.depths = (0 :> 1 @@ 1 :> 2 @@ 2 :> 2 @@ 3 :> 3)

\* C23: _check_cycle is true exactly where some role reaches itself along
\* dependency edges, a role that depends on itself included.
C23_CycleDetected ==
    out.op = "check_cycle" => (out.has_cycle <=> ~Acyclic)

\* A cycle of three roles is reported.
C23_Witness ==
    /\ out.op = "check_cycle"
    /\ Cardinality(PlanRoles) = 3
    /\ DirectDeps(0) = {2} /\ DirectDeps(1) = {0} /\ DirectDeps(2) = {1}
    /\ out.has_cycle

\* The roles that depend on a member of S, then on one of those, and so on:
\* what one or more reverse-dependency edges reach from S.
Dependants(S) == Downward({i \in PlanRoles : DirectDeps(i) \cap S # {}})

\* C24: get_transitive_deps returns exactly the roles reachable from a start
\* role along one or more reverse-dependency edges, the start roles taken out;
\* nothing for an empty start list or a start role nothing depends on.
C24_TransitiveDependants ==
    out.op = "get_transitive_deps" =>
        /\ out.transitive = Dependants(Range(stdin)) \ Range(stdin)
        /\ stdin = <<>> => out.transitive = {}
        /\ (\A s \in Range(stdin) : \A i \in PlanRoles : s \notin DirectDeps(i))
              => out.transitive = {}

\* From the root of a chain of three both later roles are returned.
C24_Witness ==
    /\ out.op = "get_transitive_deps"
    /\ Cardinality(PlanRoles) = 3
    /\ DirectDeps(0) = {} /\ DirectDeps(1) = {0} /\ DirectDeps(2) = {1}
    /\ stdin = <<0>>
    /\ out.transitive = {1, 2}

\* ------------------------------------------------------- finalize: the plans
\* bounds
MaxFinalizeRoles == 9
MaxKeyedRoles == 2

\* A name no role has.
UnknownName == <<"z">>

\* The keys of a role brief as the planner writes it.
BriefKeys == {"name", "goal", "model", "scope", "acceptanceCriteria"}

\* The keys finalize fills where they are absent.
StateKeys == {"status", "attempts", "result"}

\* What is wrong with the last role of the plan, if anything: it has the
\* name of role 0, no name, or no goal.
Flaws(n) ==
    {"none"} \cup (IF n >= 2 THEN {"duplicate"} ELSE {})
             \cup (IF n >= 1 THEN {"nameless", "goalless"} ELSE {})

FlawedNames(n, flaw) ==
    [i \in 0..(n - 1) |->
        IF i = n - 1 /\ flaw = "duplicate" THEN AllNames[1]
        ELSE IF i = n - 1 /\ flaw = "nameless" THEN <<>>
        ELSE AllNames[i + 1]]

\* The declared dependencies: in a plan of up to MaxFreeRoles roles up to two
\* names in any order, of any role (the role itself included) or of no role;
\* in a larger plan the role before, or nothing.
FinalizeDeps(n) ==
    IF n <= MaxFreeRoles
    THEN LET all == {AllNames[j + 1] : j \in 0..(n - 1)} \cup {UnknownName}
             lists == {s \in UNION {[1..k -> all] : k \in 0..2} :
                          \A a, b \in 1..Len(s) : a # b => s[a] # s[b]}
         IN [0..(n - 1) -> lists]
    ELSE {[i \in 0..(n - 1) |-> IF i \in linked THEN <<AllNames[i]>> ELSE <<>>] :
             linked \in SUBSET (1..(n - 1))}

\* Which of status, attempts and result a role already has: any of them on
\* each role of a plan of up to MaxKeyedRoles roles, all or none of them on
\* role 0 of a larger one.
KeyedRoles(n) ==
    IF n <= MaxKeyedRoles THEN [0..(n - 1) -> SUBSET StateKeys]
    ELSE {[i \in 0..(n - 1) |-> IF i = 0 THEN K ELSE {}] : K \in {{}, StateKeys}}

\* SpecFinalize: finalize, once, on a plan as a planner or an earlier run
\* left it: 0 to MaxFinalizeRoles roles, a role that already has a status
\* being in progress with one attempt and a result.
InitFinalize ==
    /\ \E n \in 0..MaxFinalizeRoles, keyed \in BOOLEAN :
          /\ \E flaw \in Flaws(n) :
                /\ names = FlawedNames(n, flaw)
                /\ \E present \in KeyedRoles(n) :
                      /\ fields = [i \in 0..(n - 1) |->
                            (BriefKeys \cup present[i])
                            \ (IF i = n - 1 /\ flaw = "nameless" THEN {"name"}
                               ELSE IF i = n - 1 /\ flaw = "goalless" THEN {"goal"}
                               ELSE {})]
                      /\ status = [i \in 0..(n - 1) |->
                            IF "status" \in present[i] THEN "in_progress" ELSE None]
                      /\ attempts = [i \in 0..(n - 1) |->
                            IF "attempts" \in present[i] THEN 1 ELSE -1]
                      /\ result = [i \in 0..(n - 1) |->
                            IF "result" \in present[i] THEN "done" ELSE None]
          /\ deps \in FinalizeDeps(n)
          /\ planKeys = IF keyed THEN {"roles", "progress"} ELSE {"roles"}
          /\ completedRoles = IF keyed THEN <<AllNames[1]>> ELSE <<>>
    /\ scope = [i \in PlanRoles |-> {"directories", "dependencies"}]
    /\ dirs = [i \in PlanRoles |-> {<<"src">>}]
    /\ directoryOverlaps = [i \in PlanRoles |-> <<>>]
    /\ echo = TRUE
    /\ loaded = NoDoc
    /\ stdin = <<>>
    /\ out = Quiet
    /\ disk = <<>>
    /\ procs = <<>>
    /\ lastRead = <<>>
    /\ failures = <<>>

NextFinalize ==
    /\ out = Quiet
    /\ \E plan_path \in PathArgs : cmd_finalize(plan_path)

SpecFinalize == InitFinalize /\ [][NextFinalize]_vars

\* ------------------------------------------------------- claims: finalize
RanFinalize == out.op = "finalize"

\* The step is a finalize invocation.
FinalizeStep == out = Quiet /\ out'.op = "finalize"

SizeOk == Cardinality(PlanRoles) \in 1..8

DuplicateAt(i) == \E j \in PlanRoles : j < i /\ names[j] = names[i]

UnresolvedAt(i) ==
    \E k \in 1..Len(deps[i]) : \A j \in PlanRoles : deps[i][k] # names[j]

TooDeep == Acyclic /\ \E i \in PlanRoles : LongestDepth(i) > 5

\* The dependency graph is well formed.
WellFormed ==
    /\ SizeOk
    /\ \A i \in PlanRoles : ~DuplicateAt(i) /\ ~UnresolvedAt(i)
    /\ Acyclic
    /\ ~TooDeep

\* No derived field and no default status is in the document.
NotEnriched ==
    \A i \in PlanRoles :
        /\ "directoryOverlaps" \notin fields[i]
        /\ "status" \notin fields[i] => status[i] = None
        /\ "attempts" \notin fields[i] => attempts[i] = -1
        /\ "result" \notin fields[i] => result[i] = None

\* C25: finalize succeeds only on a plan of 1 to 8 roles without duplicate
\* name, unresolved dependency, cycle or depth above 5; on any other plan it
\* answers ok false and writes nothing.
C25_FinalizeNeedsWellFormedGraph ==
    /\ [](RanFinalize /\ out.ok => WellFormed)
    /\ [](RanFinalize /\ ~WellFormed => ~out.ok /\ NotEnriched)
    /\ [][FinalizeStep /\ ~WellFormed => UNCHANGED docvars]_vars

\* A chain of six roles, sound but for its depth, is refused and left alone.
C25_Witness ==
    /\ RanFinalize /\ stdin = <<PlanPath>>
    /\ Cardinality(PlanRoles) = 6
    /\ \A i \in PlanRoles : DirectDeps(i) = {i - 1} \cap PlanRoles
    /\ ~out.ok
    /\ out.issues = {<<"Critical path depth too high", -1>>}
    /\ NotEnriched

\* Where two roles share a name, which of them a dependency means is not
\* settled by the plan; cycles and depths are judged where names are unique.
UniqueNames == \A i \in PlanRoles : ~DuplicateAt(i)

\* Every structural finding has its entry in the issues.
AllIssuesListed ==
    /\ Cardinality(PlanRoles) = 0 => <<"No roles in plan", -1>> \in out.issues
    /\ Cardinality(PlanRoles) > 8 => <<"Too many roles", -1>> \in out.issues
    /\ UniqueNames /\ ~Acyclic =>
          <<"Cycle detected in role dependencies", -1>> \in out.issues
    /\ UniqueNames /\ TooDeep =>
          <<"Critical path depth too high", -1>> \in out.issues
    /\ \A i \in PlanRoles :
          /\ DuplicateAt(i) => <<"Duplicate role name", i>> \in out.issues
          /\ UnresolvedAt(i) => <<"dependency not found in roles", i>> \in out.issues
          /\ names[i] = <<>> => <<"missing name", i>> \in out.issues
          /\ "goal" \notin fields[i] => <<"missing goal", i>> \in out.issues

\* The plan has a structural issue.
Flawed ==
    \/ ~WellFormed
    \/ \E i \in PlanRoles : names[i] = <<>> \/ "goal" \notin fields[i]

MaxPriorAttempts == 2

\* SpecReset: resume-reset, once, on a plan with any assignment of statuses
\* and up to MaxPriorAttempts attempts behind each role.
InitReset ==
    /\ names = DefaultNames(Roles)
    /\ planKeys = {"roles", "progress"}
    /\ deps = [i \in Roles |-> <<>>]
    /\ status \in [Roles -> Statuses]
    /\ attempts \in [Roles -> 0..MaxPriorAttempts]
    /\ result = [i \in Roles |-> "null"]
    /\ fields = [i \in Roles |-> FullKeys]
    /\ scope = [i \in Roles |-> {"directories"}]
    /\ completedRoles = <<>>
    /\ directoryOverlaps = [i \in PlanRoles |-> <<>>]
    /\ echo = TRUE
    /\ loaded = NoDoc
    /\ stdin = <<>>
    /\ out = Quiet
    /\ NoIO

NextReset ==
    /\ out = Quiet
    /\ resume_reset(MaxPriorAttempts + 1)

SpecReset == InitReset /\ [][NextReset]_vars

\* C28: resume-reset makes every role that was in progress pending with one
\* attempt more, leaves the status and the attempts of every other role as
\* they were, and reports noWorkRemaining exactly when no role is pending
\* after it.
C28_ResumeReset ==
    out.op = "resume-reset" =>
        /\ \A i \in Roles :
              IF loaded.status[i] = "in_progress"
              THEN status[i] = "pending" /\ attempts[i] = loaded.attempts[i] + 1
              ELSE status[i] = loaded.status[i] /\ attempts[i] = loaded.attempts[i]
        /\ out.noWorkRemaining <=> \A i \in Roles : status[i] # "pending"

\* A role in progress for the third time is reset beside a failed and a
\* completed one: nothing is pending but the role reset.
C28_Witness ==
    /\ out.op = "resume-reset"
    /\ loaded.status = (0 :> "in_progress" @@ 1 :> "failed" @@ 2 :> "completed")
    /\ loaded.attempts[0] = 2
    /\ status = (0 :> "pending" @@ 1 :> "failed" @@ 2 :> "completed")
    /\ attempts[0] = 3
    /\ ~out.noWorkRemaining

\* ------------------------------------------------------------ worker names
\* bounds
MaxNamedRoles == 3

\* Role names as planners write them: empty, in either case, with blanks,
\* underscores, hyphens and other signs, and names that are what a suffix
\* makes of another name.
NameInputs ==
    {<<>>, <<"a">>, <<"A">>, <<"!">>, <<"-">>, <<"a", "!">>,
     <<"a", "-", "2">>, <<"a", " ", "2">>, <<"a", "_", " ", "2">>,
     <<"-", "a", "-", "-", "2", "-">>, <<"a", "-", "3">>,
     <<"w", "o", "r", "k", "e", "r">>, <<"W", "o", "r", "k", "e", "r", " ", "2">>}

\* SpecNames: worker-pool, once, on a plan of up to MaxNamedRoles pending
\* roles without dependencies, named in any way.
InitNames ==
    /\ planKeys = {"roles", "progress"}
    /\ \E n \in 1..MaxNamedRoles :
          /\ names \in [0..(n - 1) -> NameInputs]
          /\ deps = [i \in 0..(n - 1) |-> <<>>]
          /\ status = [i \in 0..(n - 1) |-> "pending"]
    /\ attempts = [i \in PlanRoles |-> 0]
    /\ result = [i \in PlanRoles |-> "null"]
    /\ fields = [i \in PlanRoles |-> FullKeys]
    /\ scope = [i \in PlanRoles |-> {"directories"}]
    /\ completedRoles = <<>>
    /\ directoryOverlaps = [i \in PlanRoles |-> <<>>]
    /\ echo = TRUE
    /\ loaded = NoDoc
    /\ stdin = <<>>
    /\ out = Quiet
    /\ NoIO

NextNames ==
    /\ out = Quiet
    /\ cmd_worker_pool

SpecNames == InitNames /\ [][NextNames]_vars

\* The names given to the workers before worker k.
NamesBefore(k) == {out.workers[l].name : l \in 1..(k - 1)}

\* slug followed by a hyphen and the decimal digits of j.
Suffixed(slug, j) == slug \o <<"-">> \o str(j)

\* The name has a letter or a digit in it.
HasSlugCharacter(name) ==
    \E k \in 1..Len(name) : name[k] \in LowerCase \cup UpperCase \cup Digits

\* C29: the worker names of one worker-pool invocation are pairwise distinct;
\* a worker whose slug is unused gets the slug, one whose slug is in use gets
\* slug-k for the smallest k >= 2 with slug-k unused; a name without letter
\* or digit has the slug 'worker'.
C29_WorkerNamesDistinct ==
    RanWorkerPool =>
        /\ \A k, l \in 1..Len(out.workers) :
              k # l => out.workers[k].name # out.workers[l].name
        /\ \A k \in 1..Len(out.workers) :
              LET w == out.workers[k]
                  slug == IF HasSlugCharacter(w.role) THEN slugify_role(w.role)
                          ELSE WorkerSlug
              IN IF slug \notin NamesBefore(k) THEN w.name = slug
                 ELSE \E j \in 2..(Len(out.workers) + 1) :
                         /\ w.name = Suffixed(slug, j)
                         /\ w.name \notin NamesBefore(k)
                         /\ \A h \in 2..(j - 1) : Suffixed(slug, h) \in NamesBefore(k)

\* 'a', 'A' and 'a 2' all come to the slug a or a-2: the workers are a, a-2
\* and a-2-2.
C29_Witness ==
    /\ RanWorkerPool
    /\ names = (0 :> <<"a">> @@ 1 :> <<"A">> @@ 2 :> <<"a", " ", "2">>)
    /\ out.workers[1].name = <<"a">>
    /\ out.workers[2].name = <<"a", "-", "2">>
    /\ out.workers[3].name = <<"a", "-", "2", "-", "2">>

\* ------------------------------------------- claims: dependencies and status
\* C30: update-status starts a role only when all its dependencies are
\* completed: no role is in progress or completed while a dependency of it
\* is pending, in progress or failed.
C30_StartedOnlyAfterDependencies ==
    \A i \in PlanRoles :
        status[i] \in {"in_progress", "completed"} =>
            \A d \in DirectDeps(i) : status[d] \notin {"pending", "in_progress", "failed"}

\* ------------------------------------------------------- the cascade's causes
\* bounds
MaxCauseRoles == 4

\* Up to two dependencies per role, in any order, on an acyclic graph.
CauseDeps(n) ==
    LET all == {AllNames[j + 1] : j \in 0..(n - 1)}
        lists == {s \in UNION {[1..k -> all] : k \in 0..2} :
                     \A a, b \in 1..Len(s) : a # b => s[a] # s[b]}
    IN {d \in [0..(n - 1) -> lists] : ~check_cycle(resolve_dependencies(d))}

\* SpecCause: _compute_cascading_failures on a plan of up to MaxCauseRoles
\* roles as the loop of update-status hands it over: the graph acyclic, one
\* role newly failed (in stdin) and failed, the others pending, completed or
\* failed earlier, and no role started before its dependencies completed.
InitCause ==
    /\ planKeys = {"roles", "progress"}
    /\ \E n \in 2..MaxCauseRoles :
          /\ names = DefaultNames(0..(n - 1))
          /\ deps \in CauseDeps(n)
          /\ status \in [0..(n - 1) -> {"pending", "completed", "failed"}]
    /\ \A i \in PlanRoles :
          status[i] # "pending" =>
              \A d \in Range(resolve_dependencies(deps)[i]) : status[d] = "completed"
    /\ attempts = [i \in PlanRoles |-> 0]
    /\ result = [i \in PlanRoles |-> "null"]
    /\ fields = [i \in PlanRoles |-> FullKeys]
    /\ scope = [i \in PlanRoles |-> {"directories", "dependencies"}]
    /\ completedRoles = <<>>
    /\ directoryOverlaps = [i \in PlanRoles |-> <<>>]
    /\ echo = TRUE
    /\ loaded = NoDoc
    /\ stdin \in {<<f>> : f \in {i \in PlanRoles : status[i] = "failed"}}
    /\ out = Quiet
    /\ NoIO

SpecCause == InitCause /\ [][call_compute_cascading_failures]_vars

\* C31: the cause recorded for a role the cascade skipped, where the role has
\* a dependency, is one of its dependencies, and one that is failed, blocked
\* or skipped once the cascade is through.
C31_CauseIsAFailedDependency ==
    (out.op = "cascade" /\ out.round = 1) =>
        \A k \in 1..Len(out.cascaded) :
            LET i == out.cascaded[k].roleIndex
                cause == out.cascaded[k].cause
            IN DirectDeps(i) # {} =>
                  /\ cause \in DirectDeps(i)
                  /\ status[cause] \in {"failed", "blocked", "skipped"}

\* ------------------------------------------------- runs of an all-pending plan
\* SpecPending: the commands of Spec and circuit-breaker, run one after
\* another on a finalized plan in which every role is pending.
InitPending ==
    /\ Init
    /\ \A i \in Roles : status[i] = "pending"

NextPending ==
    \/ Next
    \/ cmd_circuit_breaker

SpecPending == InitPending /\ [][NextPending]_vars

\* C32: no pending role has a failed role among its transitive dependencies,
\* and circuit-breaker reports wouldBeSkipped 0.
C32_NoPendingBehindFailed ==
    /\ \A i \in PlanRoles :
          status[i] = "pending" =>
              \A d \in BackwardClosure(i) : status[d] # "failed"
    /\ RanCircuitBreaker => out.wouldBeSkipped = 0

\* ------------------------------------------------------------ retry-candidates
RetryLimit == 3

\* cmd_retry_candidates: the failed roles with fewer than RetryLimit attempts.
cmd_retry_candidates ==
    LET listed == SelectSeq(RoleList, LAMBDA i :
                                status[i] = "failed" /\ attempts[i] < RetryLimit)
    IN /\ out' = [op |-> "retry-candidates", ok |-> TRUE,
                  retryable |-> [k \in 1..Len(listed) |->
                                    [roleIndex |-> listed[k],
                                     name |-> RoleName(listed[k]),
                                     attempts |-> attempts[listed[k]],
                                     result |-> result[listed[k]]]]]
       /\ UNCHANGED <<docvars, echo, loaded, stdin, iovars>>

\* bounds
MaxFailures == 3

\* SpecRetry: update-status calls of one update each and retry-candidates,
\* run one after another on a finalized plan in which every role is pending
\* and has at most one dependency, until some role has failed MaxFailures
\* times; failures counts, for each role, the update-status calls that set it
\* failed.
InitRetry ==
    /\ names = DefaultNames(Roles)
    /\ planKeys = {"roles", "progress"}
    /\ deps \in {d \in FinalizedDeps : \A i \in Roles : Len(d[i]) <= 1}
    /\ status = [i \in Roles |-> "pending"]
    /\ attempts = [i \in Roles |-> 0]
    /\ result = [i \in Roles |-> "null"]
    /\ fields = [i \in Roles |-> FullKeys]
    /\ scope = [i \in Roles |-> IF deps[i] = <<>> THEN {"directories"}
                                 ELSE {"directories", "dependencies"}]
    /\ completedRoles = <<>>
    /\ directoryOverlaps = [i \in PlanRoles |-> <<>>]
    /\ echo = FALSE
    /\ loaded = NoDoc
    /\ stdin = <<>>
    /\ out = Quiet
    /\ dirs = <<>>
    /\ disk = <<>>
    /\ procs = <<>>
    /\ lastRead = <<>>
    /\ failures = [i \in Roles |-> 0]

NextRetry ==
    \/ /\ \A i \in Roles : failures[i] < MaxFailures
       /\ \E u \in UpdateInputs : cmd_update_status(<<u>>)
    \/ cmd_retry_candidates

SpecRetry == InitRetry /\ [][NextRetry]_vars

RanRetryCandidates == out.op = "retry-candidates"

Retryable == {out.retryable[k].roleIndex : k \in 1..Len(out.retryable)}

\* C33: retry-candidates lists no role that update-status has set failed
\* three times or more.
C33_RetryLimitAcrossCalls ==
    RanRetryCandidates =>
        \A i \in Roles : failures[i] >= 3 => i \notin Retryable

\* --------------------------------------------- claims: runs of an all-pending plan
\* C34: no role is ever blocked; every role's status is one of pending,
\* in_progress, completed, failed and skipped.
C34_NeverBlocked ==
    \A i \in PlanRoles :
        /\ status[i] # "blocked"
        /\ status[i] \in {"pending", "in_progress", "completed", "failed", "skipped"}

\* A run that ended with a completed, a failed and a skipped role.
C34_Witness ==
    /\ \E i \in PlanRoles : status[i] = "completed"
    /\ \E i \in PlanRoles : status[i] = "failed"
    /\ \E i \in PlanRoles : status[i] = "skipped"

\* ------------------------------------------- the overlaps of src/scripts/plan.py
\* bounds
MaxScriptRoles == 3

\* The loops of src/scripts/plan.py pass over the role itself only.
scripts_overlaps(role_dirs, dep_indices, i) ==
    SelectSeq(RoleList, LAMBDA j :
        /\ j # i
        /\ j \notin transitive_closure(dep_indices, i)
        /\ i \notin transitive_closure(dep_indices, j)
        /\ dirs_overlap(role_dirs[i], role_dirs[j]))

scripts_cmd_overlap_matrix ==
    LET role_dirs == collect_role_dirs
        dep_indices == resolve_dependencies(deps)
        listed == {i \in PlanRoles : scripts_overlaps(role_dirs, dep_indices, i) # <<>>}
    IN /\ out' = [op |-> "overlap-matrix", ok |-> TRUE,
                  matrix |-> [key \in {ToString(i) : i \in listed} |->
                                 scripts_overlaps(role_dirs, dep_indices,
                                     CHOOSE i \in listed : ToString(i) = key)]]
       /\ UNCHANGED <<docvars, echo, loaded, stdin, dirs, disk, procs, lastRead,
                    failures>>

scripts_compute_directory_overlaps ==
    [i \in PlanRoles |->
        scripts_overlaps(collect_role_dirs, resolve_dependencies(deps), i)]

scripts_cmd_finalize(plan_path) ==
    LET plan == load_plan(plan_path)
        issues == validate_structure
    IN /\ stdin' = Echo(<<plan_path>>, <<>>)
       /\ loaded' = Echo(Doc, NoDoc)
       /\ UNCHANGED <<echo, iovars>>
       /\ IF ~plan.ok
          THEN /\ out' = Echo([op |-> "finalize"] @@ error_exit(plan.error), Quiet)
               /\ UNCHANGED docvars
          ELSE IF issues # {}
          THEN /\ out' = Echo([op |-> "finalize"]
                              @@ output_json([ok |-> FALSE,
                                              error |-> "validation_failed",
                                              issues |-> issues]), Quiet)
               /\ UNCHANGED docvars
          ELSE /\ directoryOverlaps' = scripts_compute_directory_overlaps
               /\ status' = [i \in PlanRoles |->
                    init_if_absent("status" \in fields[i], status[i], "pending")]
               /\ attempts' = [i \in PlanRoles |->
                    init_if_absent("attempts" \in fields[i], attempts[i], 0)]
               /\ result' = [i \in PlanRoles |->
                    init_if_absent("result" \in fields[i], result[i], "null")]
               /\ fields' = [i \in PlanRoles |->
                               fields[i] \cup {"directoryOverlaps", "status",
                                               "attempts", "result"}]
               /\ completedRoles' =
                    init_if_absent("progress" \in planKeys, completedRoles, <<>>)
               /\ planKeys' = planKeys \cup {"progress"}
               /\ UNCHANGED <<names, deps, scope>>
               /\ out' = Echo([op |-> "finalize"]
                              @@ output_json([ok |-> TRUE, validated |-> TRUE,
                                              computedOverlaps |-> Cardinality(PlanRoles),
                                              roleCount |-> Cardinality(PlanRoles)]),
                              Quiet)

\* SpecScripts: overlap-matrix or finalize of src/scripts/plan.py, once, on
\* a plan of up to MaxScriptRoles roles with at most one path each.
InitScripts ==
    /\ planKeys = {"roles", "progress"}
    /\ \E n \in 1..MaxScriptRoles :
          /\ names = DefaultNames(0..(n - 1))
          /\ deps \in PlanDeps(n)
          /\ status = [i \in 0..(n - 1) |-> "pending"]
          /\ dirs \in [0..(n - 1) -> {D \in SUBSET PathInputs : Cardinality(D) <= 1}]
    /\ attempts = [i \in PlanRoles |-> 0]
    /\ result = [i \in PlanRoles |-> "null"]
    /\ fields = [i \in PlanRoles |-> FullKeys]
    /\ scope = [i \in PlanRoles |-> {"directories", "dependencies"}]
    /\ completedRoles = <<>>
    /\ directoryOverlaps = [i \in PlanRoles |-> <<>>]
    /\ echo = TRUE
    /\ loaded = NoDoc
    /\ stdin = <<>>
    /\ out = Quiet
    /\ disk = <<>>
    /\ procs = <<>>
    /\ lastRead = <<>>
    /\ failures = <<>>

NextScripts ==
    /\ out = Quiet
    /\ \/ scripts_cmd_overlap_matrix
       \/ scripts_cmd_finalize(PlanPath)

SpecScripts == InitScripts /\ [][NextScripts]_vars

\* C35: no two roles are listed in each other's overlaps, neither in the
\* matrix of overlap-matrix nor in the directoryOverlaps finalize stores.
C35_NoMutualOverlap ==
    /\ out.op = "overlap-matrix" =>
          \A i, j \in PlanRoles : ~(Recorded(i, j) /\ Recorded(j, i))
    /\ \A i, j \in PlanRoles : ~(Stored(i, j) /\ Stored(j, i))

\* ------------------------------------------------- claims: updates passed over
\* An update without roleIndex, or whose roleIndex is no index of a role.
NoSuchRole(update) ==
    \/ "roleIndex" \notin DOMAIN update
    \/ update.roleIndex \notin Roles

\* C36: an update without roleIndex or with a roleIndex outside 0..N-1 is
\* passed over: its index is not among the updated, and a batch of such
\* updates only succeeds, changes no role and reports nothing updated,
\* cascaded or trimmed.
C36_UnknownIndexSkipped ==
    RanUpdateStatus =>
        /\ out.ok =>
              \A k \in 1..Len(stdin) :
                  (NoSuchRole(stdin[k]) /\ "roleIndex" \in DOMAIN stdin[k])
                      => stdin[k].roleIndex \notin Range(out.updated)
        /\ (\A k \in 1..Len(stdin) : NoSuchRole(stdin[k])) =>
              /\ out.ok
              /\ out.updated = <<>>
              /\ out.cascaded = <<>>
              /\ out.trimmed = <<>>
              /\ Doc = loaded

\* ------------------------------------------------- claims: depths on any graph
\* A role that lies on a dependency cycle or transitively depends on one.
BehindCycle(i) ==
    \/ i \in BackwardClosure(i)
    \/ \E j \in BackwardClosure(i) : j \in BackwardClosure(j)

\* C37: compute_depths gives every role of any graph, cyclic or not, a depth
\* of at least 1, and a depth of at least 999 to every role that lies on a
\* cycle or transitively depends on one.
C37_DepthsOnAnyGraph ==
    out.op = "compute_depths" =>
        /\ DOMAIN out.depths = PlanRoles
        /\ \A i \in PlanRoles :
              /\ out.depths[i] >= 1
              /\ BehindCycle(i) => out.depths[i] >= 999

\* Roles 0, 1 and 2 in a cycle, role 3 depending on it.
C37_Witness ==
    /\ out.op = "compute_depths"
    /\ Cardinality(PlanRoles) = 4
    /\ DirectDeps(0) = {1} /\ DirectDeps(1) = {2} /\ DirectDeps(2) = {0}
    /\ DirectDeps(3) = {0}
    /\ out.depths = (0 :> 1002 @@ 1 :> 1001 @@ 2 :> 1000 @@ 3 :> 1003)

====
